---- MODULE Spec2Model ----
(***************************************************************************)
(* The orchestration core of the DeepSeek MCP agent (src/agent.py, with    *)
(* the command-line entry of src/main.py): the skill registry with its     *)
(* loader tools, the dispatch of tool calls, the reassembly of streamed    *)
(* tool-call fragments, the context compaction and the chat loop.          *)
(*                                                                         *)
(* A Python str is a sequence of tokens; "+" and f-strings are \o and      *)
(* len() is Len.  The token "skill_" is the six characters s,k,i,l,l,_ ;   *)
(* no other token of the model holds any of its characters next to each    *)
(* other, so occurrences of the substring "skill_" in a string are exactly *)
(* the occurrences of the token.  A Python dict is a record; a key that    *)
(* is absent from the dict is absent from the record's DOMAIN.             *)
(***************************************************************************)
EXTENDS Integers, Sequences, FiniteSets, TLC

(***************************************************************************)
(* Bounds of the model.                                                    *)
(***************************************************************************)
\* Skills the registry may hold in SpecAPI.
MaxSkills == 2
\* Stream deltas fed to the reassembly in SpecStream.
MaxDeltas == 3
\* User turns started plus streaming model calls issued by chat_loop in Spec.
MaxEvents == 5
\* The same in SpecFlight, where every call is two or more steps.
MaxFlightEvents == 3

(***************************************************************************)
(* The class attributes of DeepSeekMCPAgent (agent.py:120-122).  They are  *)
(* parameters of the algorithms; the source sets 1000000, 10 and 1000, the *)
(* model instantiates them with small values so that compaction and the    *)
(* iteration cap happen within the bounds above.                           *)
(***************************************************************************)
CONTEXT_CHAR_LIMIT == 14
CONTEXT_KEEP_LAST_MESSAGES == 2
MAX_TOOL_ITERATIONS == 2

VARIABLES
    skills,           \* self.skills: the MCPSkillWrapper objects, in registration order
    nsess,            \* number of ClientSession objects assigned to a wrapper so far
    last,             \* the last registry operation or summarization call and how it ended
    pc,               \* control point of main / chat_loop / process_single_input
    messages,         \* self.messages: the transcript
    tool_iterations,  \* chat_loop's local counter
    tools,            \* chat_loop's local: the list list_tools returned
    tc_idx,           \* position of "for tc in tool_calls": the next one to dispatch
    turns,            \* user inputs read so far
    model_calls,      \* streaming model calls issued in the current turn
    session_calls,    \* streaming model calls issued since chat_loop started
    summarized,       \* the prompt _condense_context handed to the summarization call
                      \* it made last (<<>> once the loop has moved on)
    stream,           \* the deltas the stream of the current response delivered
    acc,              \* chat_loop's locals of the current response: reasoning_storage,
                      \* full_content, tool_calls, current_tool_call
    inflight          \* the model calls and tool dispatches issued and not yet over

regVars == <<skills, nsess, last>>
loopVars == <<pc, messages, tool_iterations, tools, tc_idx, turns, model_calls, session_calls, summarized>>
streamVars == <<stream, acc, inflight>>
vars == <<skills, nsess, last, pc, messages, tool_iterations, tools, tc_idx, turns, model_calls, session_calls, summarized, stream, acc, inflight>>

(***************************************************************************)
(* Python built-ins.                                                       *)
(***************************************************************************)
\* dict.get(key, default)
Get(d, key, default) ==
    IF key \in DOMAIN d THEN d[key] ELSE default

\* str.startswith(prefix)
StartsWith(s, prefix) ==
    Len(s) >= Len(prefix) /\ SubSeq(s, 1, Len(prefix)) = prefix

\* str.replace(old, new): every non-overlapping occurrence, left to right.
RECURSIVE Replace(_, _, _)
Replace(s, old, new) ==
    IF Len(s) < Len(old) \/ Len(old) = 0 THEN s
    ELSE IF SubSeq(s, 1, Len(old)) = old
         THEN new \o Replace(SubSeq(s, Len(old) + 1, Len(s)), old, new)
         ELSE <<Head(s)>> \o Replace(Tail(s), old, new)

\* sep.join(parts)
RECURSIVE Join(_, _)
Join(parts, sep) ==
    IF Len(parts) = 0 THEN <<>>
    ELSE IF Len(parts) = 1 THEN Head(parts)
    ELSE Head(parts) \o sep \o Join(Tail(parts), sep)

\* seq[start:stop] with Python's meaning of negative and out-of-range indices
\* (0-based, stop exclusive).
PyIndex(n, i) ==
    IF i < 0 THEN (IF n + i < 0 THEN 0 ELSE n + i) ELSE (IF i > n THEN n ELSE i)

PySlice(s, start, stop) ==
    SubSeq(s, PyIndex(Len(s), start) + 1, PyIndex(Len(s), stop))

\* seq[start:]
PySliceFrom(s, start) ==
    SubSeq(s, PyIndex(Len(s), start) + 1, Len(s))

(***************************************************************************)
(* Exceptions.  An exception is named by its class; Bases gives the        *)
(* classes an "except" clause naming them catches it by.                   *)
(***************************************************************************)
NoExc == "none"

Bases(e) ==
    CASE e = "ConnectionError" -> {"ConnectionError", "OSError", "Exception"}
      [] e = "JSONDecodeError" -> {"JSONDecodeError", "ValueError", "Exception"}
      [] OTHER -> {e, "Exception"}

\* except (classes) as e
Caught(e, classes) ==
    Bases(e) \cap classes # {}

(***************************************************************************)
(* The inputs of the model.                                                *)
(***************************************************************************)
\* Directory / skill names.  The third one holds the loader prefix itself.
SkillNames == { <<"a">>, <<"b">>, <<"skill_", "a">> }

\* skill_md_path: None, a path with no file behind it, or a SKILL.md (its lines).
NoPath == [kind |-> "None"]
MissingPath == [kind |-> "missing"]
SkillMd == [kind |-> "file", content |-> <<"---", "description: d", "---", "# Body">>]

\* MCPSkillConfig values add_server is called with (command stands for the
\* command, its args and env).  Two of them share the name "a".
Configs ==
    { [name |-> <<"a">>, command |-> "cmd1", skill_md_path |-> SkillMd],
      [name |-> <<"a">>, command |-> "cmd2", skill_md_path |-> NoPath],
      [name |-> <<"b">>, command |-> "cmd1", skill_md_path |-> MissingPath],
      [name |-> <<"skill_", "a">>, command |-> "cmd1", skill_md_path |-> NoPath] }

\* Operation lists a backend may answer session.list_tools() with.
ToolLists == { <<>>, << <<"t">> >>, << <<"t">>, <<"skill_", "t">> >> }

\* How one connect_server run goes: every step succeeds (and the backend
\* lists `tools`), or the step `fail` raises `exc`.
ConnOutcomes ==
    [fail : {"none"}, exc : {NoExc}, tools : ToolLists]
    \cup { [fail |-> "stdio_client", exc |-> "OSError", tools |-> <<>>],
           [fail |-> "initialize", exc |-> "McpError", tools |-> <<>>],
           [fail |-> "list_tools", exc |-> "OSError", tools |-> <<>>],
           [fail |-> "list_tools", exc |-> "McpError", tools |-> <<>>] }

ConnDefault == [fail |-> "none", exc |-> NoExc, tools |-> <<>>]

\* Content segments of a CallToolResult.
TextSeg(t) == [type |-> "text", text |-> t]
ImageSeg == [type |-> "image"]

\* How one session.call_tool run goes: it returns content, or raises.
BackendOutcomes ==
    { [exc |-> NoExc, content |-> << TextSeg(<<"x">>) >>],
      [exc |-> NoExc, content |-> << TextSeg(<<"x">>), ImageSeg, TextSeg(<<"y">>) >>],
      [exc |-> "RuntimeError", content |-> <<>>],
      [exc |-> "McpError", content |-> <<>>] }

BackendDefault == [exc |-> NoExc, content |-> <<>>]

\* Argument objects (parsed JSON).
ArgObjs == { "{}", "{k:1}" }

\* Operation names call_tool is given.
CallNames ==
    { <<"skill_">> \o n : n \in SkillNames }
    \cup { <<"t">>, <<"skill_", "t">>, <<"frobnicate">> }

(***************************************************************************)
(* MCPSkillWrapper.                                                        *)
(***************************************************************************)
\* The description: line of the front matter, after its colon, stripped.
DescriptionOf(line) ==
    IF line = "description: d" THEN <<"d">> ELSE <<>>

\* The lines of content.split("---", 2)[1]: between the first two "---".
RECURSIVE UpToMarker(_)
UpToMarker(lines) ==
    IF Len(lines) = 0 \/ Head(lines) = "---" THEN <<>>
    ELSE <<Head(lines)>> \o UpToMarker(Tail(lines))

RECURSIVE FirstDescription(_)
FirstDescription(lines) ==
    IF Len(lines) = 0 THEN <<>>
    ELSE IF DescriptionOf(Head(lines)) # <<>> THEN DescriptionOf(Head(lines))
    ELSE FirstDescription(Tail(lines))

\* MCPSkillWrapper._load_metadata: [description, full_instructions]
load_metadata(config) ==
    LET dflt == <<"Tools for ">> \o config.name
        path == config.skill_md_path
    IN  IF path.kind = "None" THEN [description |-> dflt, full_instructions |-> dflt]
        ELSE IF path.kind = "file"
        THEN LET content == path.content
                 desc == IF Len(content) > 0 /\ Head(content) = "---"
                         THEN FirstDescription(UpToMarker(Tail(content)))
                         ELSE <<>>
             IN  [description |-> IF desc # <<>> THEN desc ELSE dflt,
                  full_instructions |-> content]
        ELSE [description |-> dflt, full_instructions |-> dflt]

\* MCPSkillWrapper.__init__  (session 0 is None)
MCPSkillWrapper(config) ==
    [config |-> config,
     loaded |-> FALSE,
     session |-> 0,
     tools_cache |-> <<>>,
     description |-> load_metadata(config).description,
     full_instructions |-> load_metadata(config).full_instructions]

\* The name of a skill's loader tool.
LoaderName(name) ==
    <<"skill_">> \o name

\* A loader entry under the skill's bare name: the variant C1_ListToolsShape
\* has to tell from get_loader_tool_def.
get_loader_tool_def_bare(w) ==
    [type |-> "function", name |-> w.config.name, parameters |-> "empty"]

\* MCPSkillWrapper.get_loader_tool_def (the description text is left out)
get_loader_tool_def(w) ==
    [type |-> "function", name |-> LoaderName(w.config.name), parameters |-> "empty"]

\* The tool_def connect_server caches for a backend tool.
ToolDef(name) ==
    [type |-> "function", name |-> name, parameters |-> "inputSchema"]

(***************************************************************************)
(* DeepSeekMCPAgent: the registry.                                         *)
(***************************************************************************)
\* Index of the first skill (in registration order) with that name; 0 if none.
FindSkill(sk, name) ==
    IF \E i \in 1..Len(sk) : sk[i].config.name = name
    THEN CHOOSE i \in 1..Len(sk) :
            /\ sk[i].config.name = name
            /\ \A j \in 1..(i - 1) : sk[j].config.name # name
    ELSE 0

\* An add_server without the duplicate check: the variant
\* C15_DistinctNames has to tell from add_server.
add_server_always(sk, config) ==
    Append(sk, MCPSkillWrapper(config))

\* add_server
add_server(sk, config) ==
    IF FindSkill(sk, config.name) # 0 THEN sk
    ELSE Append(sk, MCPSkillWrapper(config))

\* The exception classes connect_server catches.
ConnectCaught == {"OSError", "RuntimeError", "ConnectionError"}

\* A connect_server that takes the disclosure back when initializing the
\* session fails: the variant C3_LoadedForever has to tell from connect_server.
connect_server_unload(w, ns, out) ==
    IF w.session # 0 THEN [w |-> w, nsess |-> ns, exc |-> NoExc]
    ELSE IF out.fail \in {"stdio_client", "initialize"}
    THEN [w |-> [w EXCEPT !.loaded = (out.fail # "initialize" /\ w.loaded)], nsess |-> ns,
          exc |-> IF Caught(out.exc, ConnectCaught) THEN NoExc ELSE out.exc]
    ELSE IF out.fail = "list_tools"
    THEN [w |-> [w EXCEPT !.session = ns + 1], nsess |-> ns + 1,
          exc |-> IF Caught(out.exc, ConnectCaught) THEN NoExc ELSE out.exc]
    ELSE [w |-> [w EXCEPT !.session = ns + 1,
                          !.tools_cache = w.tools_cache \o [i \in 1..Len(out.tools) |-> ToolDef(out.tools[i])]],
          nsess |-> ns + 1, exc |-> NoExc]

\* A connect_server without the early return for a connected wrapper: the
\* variant C14_ReloadChangesNothing has to tell from connect_server.
connect_server_again(w, ns, out) ==
    IF out.fail \in {"stdio_client", "initialize"}
    THEN [w |-> w, nsess |-> ns,
          exc |-> IF Caught(out.exc, ConnectCaught) THEN NoExc ELSE out.exc]
    ELSE IF out.fail = "list_tools"
    THEN [w |-> [w EXCEPT !.session = ns + 1], nsess |-> ns + 1,
          exc |-> IF Caught(out.exc, ConnectCaught) THEN NoExc ELSE out.exc]
    ELSE [w |-> [w EXCEPT !.session = ns + 1,
                          !.tools_cache = w.tools_cache \o [i \in 1..Len(out.tools) |-> ToolDef(out.tools[i])]],
          nsess |-> ns + 1, exc |-> NoExc]

\* A connect_server that puts the connection off: the variant
\* C28_DispatchSeesEarlierDispatches has to tell from connect_server.
connect_server_lazy(w, ns, out) ==
    [w |-> w, nsess |-> ns, exc |-> NoExc]

\* A connect_server that drops the session and the cache of a connected
\* wrapper instead of returning early: the variant C23_SessionDiscipline has
\* to tell from connect_server.
connect_server_reset(w, ns, out) ==
    IF w.session # 0
    THEN [w |-> [w EXCEPT !.session = 0, !.tools_cache = <<>>], nsess |-> ns, exc |-> NoExc]
    ELSE IF out.fail \in {"stdio_client", "initialize"}
    THEN [w |-> w, nsess |-> ns,
          exc |-> IF Caught(out.exc, ConnectCaught) THEN NoExc ELSE out.exc]
    ELSE IF out.fail = "list_tools"
    THEN [w |-> [w EXCEPT !.session = ns + 1], nsess |-> ns + 1,
          exc |-> IF Caught(out.exc, ConnectCaught) THEN NoExc ELSE out.exc]
    ELSE [w |-> [w EXCEPT !.session = ns + 1,
                          !.tools_cache = w.tools_cache \o [i \in 1..Len(out.tools) |-> ToolDef(out.tools[i])]],
          nsess |-> ns + 1, exc |-> NoExc]

\* connect_server(wrapper) under outcome `out`, with ns sessions assigned so
\* far: the wrapper afterwards, the sessions assigned, the exception raised
\* to the caller (NoExc if it returns).
connect_server(w, ns, out) ==
    IF w.session # 0 THEN [w |-> w, nsess |-> ns, exc |-> NoExc]
    ELSE IF out.fail \in {"stdio_client", "initialize"}
    THEN [w |-> w, nsess |-> ns,
          exc |-> IF Caught(out.exc, ConnectCaught) THEN NoExc ELSE out.exc]
    ELSE IF out.fail = "list_tools"
    THEN [w |-> [w EXCEPT !.session = ns + 1], nsess |-> ns + 1,
          exc |-> IF Caught(out.exc, ConnectCaught) THEN NoExc ELSE out.exc]
    ELSE [w |-> [w EXCEPT !.session = ns + 1,
                          !.tools_cache = w.tools_cache \o [i \in 1..Len(out.tools) |-> ToolDef(out.tools[i])]],
          nsess |-> ns + 1, exc |-> NoExc]

\* list_tools from skill i on: outs[i] is how connecting skill i goes.
RECURSIVE list_tools_from(_, _, _, _, _, _)
list_tools_from(i, sk, ns, combined_tools, conn, outs) ==
    IF i > Len(sk)
    THEN [skills |-> sk, nsess |-> ns, exc |-> NoExc, ret |-> combined_tools, connect |-> conn]
    ELSE IF ~sk[i].loaded
    THEN list_tools_from(i + 1, sk, ns, Append(combined_tools, get_loader_tool_def(sk[i])), conn, outs)
    ELSE IF sk[i].session = 0
    THEN LET c == connect_server(sk[i], ns, outs[i])
             sk2 == [sk EXCEPT ![i] = c.w]
         IN  IF c.exc # NoExc
             THEN [skills |-> sk2, nsess |-> c.nsess, exc |-> c.exc, ret |-> <<>>, connect |-> Append(conn, i)]
             ELSE list_tools_from(i + 1, sk2, c.nsess, combined_tools \o c.w.tools_cache, Append(conn, i), outs)
    ELSE list_tools_from(i + 1, sk, ns, combined_tools \o sk[i].tools_cache, conn, outs)

\* list_tools.  `connect` lists the skills a connection was attempted for,
\* `failed` those of them whose attempt failed at one of its steps.
list_tools(sk, ns, outs) ==
    LET r == list_tools_from(1, sk, ns, <<>>, <<>>, outs)
    IN  [skills |-> r.skills, nsess |-> r.nsess, exc |-> r.exc, ret |-> r.ret,
         connect |-> r.connect,
         failed |-> SelectSeq(r.connect, LAMBDA i : outs[i].fail # "none")]

\* Every name taken for a loader tool's: the variant C17_NotFoundText has to
\* tell from IsLoaderCall.
IsLoaderCall_any(tool_name) ==
    TRUE

\* "1. Check for Loader Tools"
IsLoaderCall(tool_name) ==
    StartsWith(tool_name, <<"skill_">>)

\* The skill name call_tool takes from a loader tool's name.
LoaderSkillName(tool_name) ==
    Replace(tool_name, <<"skill_">>, <<>>)

\* The exception classes call_tool catches around session.call_tool.
CallCaught == {"RuntimeError", "KeyError"}

\* Index of the first loaded, connected skill whose tools_cache lists the name; 0 if none.
Owns(w, tool_name) ==
    w.loaded /\ w.session # 0 /\ \E j \in 1..Len(w.tools_cache) : w.tools_cache[j].name = tool_name

\* The last owner instead of the first: the variant C16_FirstOwnerInvoked
\* has to tell from FindOwner.
FindOwner_last(sk, tool_name) ==
    IF \E i \in 1..Len(sk) : Owns(sk[i], tool_name)
    THEN CHOOSE i \in 1..Len(sk) :
            /\ Owns(sk[i], tool_name)
            /\ \A j \in (i + 1)..Len(sk) : ~Owns(sk[j], tool_name)
    ELSE 0

FindOwner(sk, tool_name) ==
    IF \E i \in 1..Len(sk) : Owns(sk[i], tool_name)
    THEN CHOOSE i \in 1..Len(sk) :
            /\ Owns(sk[i], tool_name)
            /\ \A j \in 1..(i - 1) : ~Owns(sk[j], tool_name)
    ELSE 0

\* The text segments of a result, in order.
RECURSIVE TextContent(_)
TextContent(content) ==
    IF Len(content) = 0 THEN <<>>
    ELSE IF Head(content).type = "text"
         THEN <<Head(content).text>> \o TextContent(Tail(content))
         ELSE TextContent(Tail(content))

\* call_tool(tool_name, arguments): conn is how connect_server goes, be how the
\* backend call goes.  `invoked` lists the session.call_tool calls made: the
\* skill, the name and arguments passed, and the backend's response.
call_tool(sk, ns, tool_name, arguments, conn, be) ==
    LET base == [skills |-> sk, nsess |-> ns, exc |-> NoExc, ret |-> <<>>,
                 connect |-> <<>>, failed |-> <<>>, invoked |-> <<>>]
    IN
    IF IsLoaderCall(tool_name)
    THEN LET skill_name == LoaderSkillName(tool_name)
             i == FindSkill(sk, skill_name)
         IN  IF i = 0
             THEN [base EXCEPT !.ret = <<"Error: Skill '">> \o skill_name \o <<"' not found.">>]
             ELSE LET c == connect_server([sk[i] EXCEPT !.loaded = TRUE], ns, conn)
                  IN  [base EXCEPT !.skills = [sk EXCEPT ![i] = c.w],
                                   !.nsess = c.nsess,
                                   !.connect = <<i>>,
                                   !.failed = IF sk[i].session = 0 /\ conn.fail # "none"
                                              THEN <<i>> ELSE <<>>,
                                   !.exc = c.exc,
                                   !.ret = IF c.exc = NoExc THEN c.w.full_instructions ELSE <<>>]
    ELSE LET i == FindOwner(sk, tool_name)
         IN  IF i = 0
             THEN [base EXCEPT !.ret = <<"Error: Tool '">> \o tool_name \o <<"' not found or skill not loaded.">>]
             ELSE LET inv == << [skill |-> i, name |-> tool_name, arguments |-> arguments,
                                 response |-> be] >>
                  IN  IF be.exc = NoExc
                      THEN [base EXCEPT !.invoked = inv,
                                        !.ret = Join(TextContent(be.content), <<"\n">>)]
                      ELSE IF Caught(be.exc, CallCaught)
                      THEN [base EXCEPT !.invoked = inv,
                                        !.ret = <<"Error executing ">> \o tool_name \o <<": ", be.exc>>]
                      ELSE [base EXCEPT !.invoked = inv, !.exc = be.exc]

(***************************************************************************)
(* The reassembly of a response stream (chat_loop, "for chunk in stream"). *)
(* A delta carries a reasoning increment, a content increment and a list   *)
(* of tool-call fragments; None and the empty string are both falsy, and   *)
(* both are the empty value here (<<>>, or "" for an id).                  *)
(***************************************************************************)
Fragment(id, name, arguments) ==
    [id |-> id, name |-> name, arguments |-> arguments]

Delta(reasoning, content, frags) ==
    [reasoning_content |-> reasoning, content |-> content, tool_calls |-> frags]

\* The deltas a stream is made of.
Deltas ==
    { Delta(<<"r">>, <<>>, <<>>),
      Delta(<<>>, <<"c">>, <<>>),
      Delta(<<>>, <<>>, <<>>),
      Delta(<<>>, <<>>, << Fragment("id1", <<"skill_", "a">>, <<>>) >>),
      Delta(<<>>, <<>>, << Fragment("id2", <<"t">>, <<"{">>) >>),
      Delta(<<>>, <<>>, << Fragment("", <<>>, <<"{">>) >>),
      Delta(<<>>, <<>>, << Fragment("", <<>>, <<"}">>) >>),
      Delta(<<"r">>, <<"c">>, << Fragment("id3", <<"frobnicate">>, <<>>), Fragment("", <<>>, <<"{", "}">>) >>) }

\* The locals before the first chunk (agent.py:468, 477-479).  current_tool_call
\* is <<>> for None, else the one dict.
AccInit ==
    [reasoning_storage |-> <<>>, full_content |-> <<>>, tool_calls |-> <<>>,
     current_tool_call |-> <<>>, exc |-> NoExc, sealed |-> FALSE]

\* "if tc.id:" -- a fragment with an identity seals the dict in flight and opens a new one.
OnIdentity(a, tc) ==
    IF tc.id # ""
    THEN [a EXCEPT !.tool_calls = IF a.current_tool_call # <<>>
                                  THEN a.tool_calls \o a.current_tool_call
                                  ELSE a.tool_calls,
                   !.current_tool_call =
                       << [id |-> tc.id, type |-> "function",
                           function |-> [name |-> tc.name, arguments |-> <<>>]] >>]
    ELSE a

\* "if tc.function.arguments:" -- subscripting None raises TypeError.
OnArguments(a, tc) ==
    IF tc.arguments # <<>>
    THEN IF a.current_tool_call = <<>>
         THEN [a EXCEPT !.exc = "TypeError"]
         ELSE [a EXCEPT !.current_tool_call[1].function.arguments = @ \o tc.arguments]
    ELSE a

\* One pass of "for tc in chunk.choices[0].delta.tool_calls".
RECURSIVE OnFragments(_, _)
OnFragments(a, frags) ==
    IF Len(frags) = 0 \/ a.exc # NoExc THEN a
    ELSE OnFragments(OnArguments(OnIdentity(a, Head(frags)), Head(frags)), Tail(frags))

\* A reassembly that keeps the latest reasoning increment only: the variant
\* C19_ReasoningKept has to tell from OnReasoning.
OnReasoning_latest(a, chunk) ==
    IF chunk.reasoning_content # <<>>
    THEN [a EXCEPT !.reasoning_storage = chunk.reasoning_content]
    ELSE a

\* 1. Handle Reasoning
OnReasoning(a, chunk) ==
    IF chunk.reasoning_content # <<>>
    THEN [a EXCEPT !.reasoning_storage = @ \o chunk.reasoning_content]
    ELSE a

\* 2. Handle Content
OnContent(a, chunk) ==
    IF chunk.content # <<>>
    THEN [a EXCEPT !.full_content = @ \o chunk.content]
    ELSE a

\* One pass of "for chunk in stream".
OnChunk(a, chunk) ==
    OnFragments(OnContent(OnReasoning(a, chunk), chunk), chunk.tool_calls)

\* After the loop: "if current_tool_call: tool_calls.append(current_tool_call)".
Seal(a) ==
    [a EXCEPT !.tool_calls = IF a.current_tool_call # <<>>
                             THEN a.tool_calls \o a.current_tool_call
                             ELSE a.tool_calls,
              !.sealed = TRUE]

\* The whole loop over the deltas of a stream, up to the first exception.
RECURSIVE OnChunks(_, _)
OnChunks(a, deltas) ==
    IF Len(deltas) = 0 \/ a.exc # NoExc THEN a
    ELSE OnChunks(OnChunk(a, Head(deltas)), Tail(deltas))

\* The reassembly of a whole stream.
Reassemble(deltas) ==
    LET a == OnChunks(AccInit, deltas)
    IN  IF a.exc # NoExc THEN a ELSE Seal(a)

\* A parser that takes every text for the empty object: the variant
\* C24_ParseFailureIsToolError has to tell from json_loads.
json_loads_lenient(text) ==
    [exc |-> NoExc, val |-> "{}"]

\* json.loads of an invocation's argument text.
json_loads(text) ==
    IF text = <<"{", "}">> THEN [exc |-> NoExc, val |-> "{}"]
    ELSE IF text = <<"{", "k:1", "}">> THEN [exc |-> NoExc, val |-> "{k:1}"]
    ELSE [exc |-> "JSONDecodeError", val |-> ""]

(***************************************************************************)
(* The transcript and its compaction.                                      *)
(***************************************************************************)
\* The system prompt chat_loop builds from the skill summaries
\* (agent.py:403-434): the fixed text, then one "- name: description" line
\* per skill, joined by newlines, then a newline.
RECURSIVE skill_summaries(_)
skill_summaries(sk) ==
    IF Len(sk) = 0 THEN <<>>
    ELSE << <<"- ">> \o Head(sk).config.name \o <<": ">> \o Head(sk).description >>
         \o skill_summaries(Tail(sk))

system_prompt(sk) ==
    <<"You are an efficient autonomous agent ... ## Available Skills\n">>
    \o Join(skill_summaries(sk), <<"\n">>) \o <<"\n">>

SystemMsg(sk) ==
    [role |-> "system", content |-> system_prompt(sk)]

UserMsg(user_input) ==
    [role |-> "user", content |-> user_input]

\* The assistant message of a response (agent.py:550-567): reasoning_content
\* only if some was streamed, tool_calls only if there are invocations.
AssistantMsg(a) ==
    LET calls == [i \in 1..Len(a.tool_calls) |->
                    [id |-> a.tool_calls[i].id, type |-> "function",
                     function |-> a.tool_calls[i].function]]
    IN  IF a.reasoning_storage # <<>> /\ a.tool_calls # <<>>
        THEN [role |-> "assistant", content |-> a.full_content,
              reasoning_content |-> a.reasoning_storage, tool_calls |-> calls]
        ELSE IF a.reasoning_storage # <<>>
        THEN [role |-> "assistant", content |-> a.full_content,
              reasoning_content |-> a.reasoning_storage]
        ELSE IF a.tool_calls # <<>>
        THEN [role |-> "assistant", content |-> a.full_content, tool_calls |-> calls]
        ELSE [role |-> "assistant", content |-> a.full_content]

ToolMsg(tc, result) ==
    [role |-> "tool", tool_call_id |-> tc.id, content |-> result]

\* sum(len(str(content)) + len(str(reasoning_content)) for m in messages)
RECURSIVE total_chars(_)
total_chars(msgs) ==
    IF Len(msgs) = 0 THEN 0
    ELSE Len(Get(Head(msgs), "content", <<>>))
         + Len(Get(Head(msgs), "reasoning_content", <<>>))
         + total_chars(Tail(msgs))

\* text_block: one "role: content\n" per message to summarize.
RECURSIVE text_block(_)
text_block(msgs) ==
    IF Len(msgs) = 0 THEN <<>>
    ELSE <<Head(msgs).role, ": ">> \o Get(Head(msgs), "content", <<>>) \o <<"\n">>
         \o text_block(Tail(msgs))

summary_prompt(to_summarize) ==
    <<"Summarize the following interaction history ...\n\n">> \o text_block(to_summarize)

SummaryMsg(summary) ==
    [role |-> "user",
     content |-> <<"## Previous Conversation Summary\n">> \o summary
                 \o <<"\n\n(Resume task based on this summary)">>]

\* How the summarization call (send_llm_request) goes.
SummaryOutcomes ==
    { [exc |-> NoExc, text |-> <<"s">>],
      [exc |-> "OpenAIError", text |-> <<>>],
      [exc |-> "TransportError", text |-> <<>>] }

\* A trigger that looks at the character count alone: the variant
\* C11_NoCompactionBelowTrigger has to tell from CondenseTriggers.
CondenseTriggers_chars(msgs) ==
    total_chars(msgs) > CONTEXT_CHAR_LIMIT

\* The condition under which _condense_context condenses.
CondenseTriggers(msgs) ==
    total_chars(msgs) > CONTEXT_CHAR_LIMIT /\ Len(msgs) > CONTEXT_KEEP_LAST_MESSAGES + 2

\* The two slices: messages[1:-KEEP_LAST] and messages[-KEEP_LAST:].
ToSummarize(msgs) ==
    PySlice(msgs, 1, 0 - CONTEXT_KEEP_LAST_MESSAGES)

\* A tail one message longer: the variant C10_CompactionShape has to tell from ToKeep.
ToKeep_more(msgs) ==
    PySliceFrom(msgs, 0 - CONTEXT_KEEP_LAST_MESSAGES - 1)

ToKeep(msgs) ==
    PySliceFrom(msgs, 0 - CONTEXT_KEEP_LAST_MESSAGES)

\* A condensed transcript without the first message: the variant
\* C13_SystemMessageFirst has to tell from Condensed.
Condensed_nosystem(msgs, summary) ==
    <<SummaryMsg(summary)>> \o ToKeep(msgs)

\* self.messages = [system_prompt, summary_msg] + to_keep
Condensed(msgs, summary) ==
    <<msgs[1], SummaryMsg(summary)>> \o ToKeep(msgs)

\* The exception classes _condense_context catches around the summarization.
CondenseCaught == {"OpenAIError", "RuntimeError"}

\* _condense_context under summarization outcome `so`: the transcript
\* afterwards, the prompt handed to the summarizer (<<>> if none was), the
\* exception raised to the caller.
condense_context(msgs, so) ==
    IF CondenseTriggers(msgs)
    THEN LET prompt == summary_prompt(ToSummarize(msgs))
         IN  IF so.exc = NoExc
             THEN [messages |-> Condensed(msgs, so.text),
                   summarized |-> prompt, exc |-> NoExc]
             ELSE [messages |-> msgs, summarized |-> prompt,
                   exc |-> IF Caught(so.exc, CondenseCaught) THEN NoExc ELSE so.exc]
    ELSE [messages |-> msgs, summarized |-> <<>>, exc |-> NoExc]

(***************************************************************************)
(* States and steps.                                                       *)
(***************************************************************************)
NoOp ==
    [op |-> "none", name |-> <<>>, arguments |-> "", exc |-> NoExc, ret |-> <<>>,
     connect |-> <<>>, failed |-> <<>>, invoked |-> <<>>]

\* A fresh DeepSeekMCPAgent (agent.py:104-118).
InitAgent ==
    /\ skills = <<>>
    /\ nsess = 0
    /\ last = NoOp
    /\ messages = <<>>
    /\ tool_iterations = 0
    /\ tools = <<>>
    /\ tc_idx = 0
    /\ turns = 0
    /\ model_calls = 0
    /\ session_calls = 0
    /\ summarized = <<>>
    /\ stream = <<>>
    /\ acc = AccInit
    /\ inflight = {}

(***************************************************************************)
(* SpecAPI: the registry under any sequence of add_server, list_tools and  *)
(* call_tool calls.                                                        *)
(***************************************************************************)
API_add_server(config) ==
    /\ pc = "api"
    /\ FindSkill(skills, config.name) # 0 \/ Len(skills) < MaxSkills
    /\ skills' = add_server(skills, config)
    /\ last' = [NoOp EXCEPT !.op = "add_server", !.name = config.name,
                            !.arguments = config.command]
    /\ UNCHANGED <<nsess, loopVars, streamVars>>

API_list_tools(outs) ==
    /\ pc = "api"
    /\ \A i \in 1..Len(skills) :
          (~skills[i].loaded \/ skills[i].session # 0) => outs[i] = ConnDefault
    /\ LET r == list_tools(skills, nsess, outs)
       IN  /\ skills' = r.skills
           /\ nsess' = r.nsess
           /\ last' = [NoOp EXCEPT !.op = "list_tools", !.exc = r.exc, !.ret = r.ret,
                                   !.connect = r.connect, !.failed = r.failed]
    /\ UNCHANGED <<loopVars, streamVars>>

API_call_tool(tool_name, arguments, conn, be) ==
    /\ pc = "api"
    /\ IsLoaderCall(tool_name) => be = BackendDefault /\ arguments = "{}"
    /\ ~IsLoaderCall(tool_name) => conn = ConnDefault
    /\ LET r == call_tool(skills, nsess, tool_name, arguments, conn, be)
       IN  /\ skills' = r.skills
           /\ nsess' = r.nsess
           /\ last' = [NoOp EXCEPT !.op = "call_tool", !.name = tool_name,
                                   !.arguments = arguments, !.exc = r.exc, !.ret = r.ret,
                                   !.connect = r.connect, !.failed = r.failed,
                                   !.invoked = r.invoked]
    /\ UNCHANGED <<loopVars, streamVars>>

InitAPI ==
    InitAgent /\ pc = "api"

NextAPI ==
    \/ \E config \in Configs : API_add_server(config)
    \/ \E outs \in [1..Len(skills) -> ConnOutcomes] : API_list_tools(outs)
    \/ \E tool_name \in CallNames, arguments \in ArgObjs, conn \in ConnOutcomes, be \in BackendOutcomes \cup {BackendDefault} :
          API_call_tool(tool_name, arguments, conn, be)

SpecAPI ==
    InitAPI /\ [][NextAPI]_vars

(***************************************************************************)
(* SpecStream: the reassembly fed any sequence of at most MaxDeltas deltas.*)
(***************************************************************************)
Stream_chunk(chunk) ==
    /\ pc = "stream"
    /\ ~acc.sealed /\ acc.exc = NoExc
    /\ Len(stream) < MaxDeltas
    /\ stream' = Append(stream, chunk)
    /\ UNCHANGED inflight
    /\ acc' = OnChunk(acc, chunk)
    /\ UNCHANGED <<regVars, loopVars>>

Stream_end ==
    /\ pc = "stream"
    /\ ~acc.sealed /\ acc.exc = NoExc
    /\ acc' = Seal(acc)
    /\ UNCHANGED <<regVars, loopVars, stream, inflight>>

InitStream ==
    InitAgent /\ pc = "stream"

NextStream ==
    \/ \E chunk \in Deltas : Stream_chunk(chunk)
    \/ Stream_end

SpecStream ==
    InitStream /\ [][NextStream]_vars

(***************************************************************************)
(* Spec: the program in interactive mode.  main registers every server     *)
(* directory (main.py:289-303) and runs chat_loop (agent.py:400-606).      *)
(***************************************************************************)
\* The directories under servers/ that hold a SKILL.md and a server.py, in
\* the order servers_dir.iterdir() yields them.
ServerDirs == << <<"a">>, <<"b">> >>

\* The operation list every server under servers/ answers list_tools with.
ServerTools ==
    << <<"t">> >>

\* How connect_server may go for a skill main registered.
MainConnOutcomes ==
    { out \in ConnOutcomes :
        /\ out.fail = "none" => out.tools = ServerTools
        /\ out.fail = "list_tools" => out.exc = "OSError" }

\* How a backend call may go in Spec.
MainBackendOutcomes ==
    { [exc |-> NoExc, content |-> << TextSeg(<<"x">>) >>],
      [exc |-> "RuntimeError", content |-> <<>>],
      [exc |-> "McpError", content |-> <<>>] }

\* The add_server call main makes for a directory.
MainConfig(name) ==
    [name |-> name, command |-> "python", skill_md_path |-> SkillMd]

\* What the user types.
UserInputs == { <<"u">>, <<"exit">> }

\* user_input.lower() in ["exit", "quit"]
IsExit(user_input) ==
    user_input \in { <<"exit">>, <<"quit">> }

\* The response streams the model answers with.
D_r == Delta(<<"r">>, <<>>, <<>>)
D_c == Delta(<<>>, <<"c">>, <<>>)
D_load == Delta(<<>>, <<>>, << Fragment("id1", <<"skill_", "a">>, <<>>) >>)
D_t == Delta(<<>>, <<>>, << Fragment("id2", <<"t">>, <<"{">>) >>)
D_open == Delta(<<>>, <<>>, << Fragment("", <<>>, <<"{">>) >>)
D_close == Delta(<<>>, <<>>, << Fragment("", <<>>, <<"}">>) >>)

ModelStreams ==
    { <<D_r, D_r, D_c>>,
      <<D_c>>,
      <<D_load, D_open, D_close, D_t, D_close>>,
      <<D_r, D_t, D_close, D_load, D_open, D_close>>,
      <<D_r, D_load>>,
      <<D_load, D_t, D_close>>,
      <<D_open>> }

\* The deltas a stream delivered when the transport fails under it.
BrokenStreams ==
    { <<D_r>>,
      <<D_load, D_open>> }

\* How the streaming request goes: it delivers its deltas and ends, or
\* create() raises, or the transport fails after the deltas.
StreamFailures == { "none", "create", "stream" }

\* The exception classes the dispatch loop catches around json.loads and call_tool.
DispatchCaught == {"JSONDecodeError", "RuntimeError", "OpenAIError"}

\* A cap that stops one round late: the variant C9_IterationCap has to tell
\* from CapReached.
CapReached_late(n) ==
    n > MAX_TOOL_ITERATIONS

\* "if tool_iterations >= self.MAX_TOOL_ITERATIONS"
CapReached(n) ==
    n >= MAX_TOOL_ITERATIONS

\* A loop that never takes the break: the variant C8_AnswerEndsTurn has to
\* tell from TurnDone.
TurnDone_never(tool_calls) ==
    FALSE

\* "if not tool_calls: break"
TurnDone(tool_calls) ==
    tool_calls = <<>>

\* main: agent.add_server for one more directory.
Main_add_server ==
    /\ pc = "setup"
    /\ Len(skills) < Len(ServerDirs)
    /\ skills' = add_server(skills, MainConfig(ServerDirs[Len(skills) + 1]))
    /\ UNCHANGED <<nsess, last, loopVars, streamVars>>

\* chat_loop up to its first prompt: the system message is appended.
Main_chat_loop ==
    /\ pc = "setup"
    /\ Len(skills) = Len(ServerDirs)
    /\ messages' = Append(messages, SystemMsg(skills))
    /\ pc' = "input"
    /\ UNCHANGED <<regVars, tool_iterations, tools, tc_idx, turns, model_calls, session_calls, summarized, streamVars>>

\* console.input, then exit/quit or the start of a turn.
ReadInput(user_input) ==
    /\ pc = "input"
    /\ IF IsExit(user_input)
       THEN /\ pc' = "exited"
            /\ UNCHANGED <<messages, tool_iterations, turns, model_calls>>
       ELSE /\ turns + session_calls < MaxEvents
            /\ messages' = Append(messages, UserMsg(user_input))
            /\ tool_iterations' = 0
            /\ turns' = turns + 1
            /\ model_calls' = 0
            /\ pc' = "top"
    /\ stream' = <<>>
    /\ UNCHANGED inflight
    /\ acc' = AccInit
    /\ summarized' = <<>>
    /\ UNCHANGED <<regVars, tools, tc_idx, session_calls>>

\* Top of the per-turn loop with the cap reached: break.
CapStop ==
    /\ pc = "top"
    /\ CapReached(tool_iterations)
    /\ pc' = "input"
    /\ UNCHANGED <<regVars, messages, tool_iterations, tools, tc_idx, turns, model_calls, session_calls, summarized, streamVars>>

\* Top of the per-turn loop below the cap: await self._condense_context().
\* An exception it lets through reaches chat_loop's "except Exception".
Condense(so) ==
    /\ pc = "top"
    /\ ~CapReached(tool_iterations)
    /\ LET r == condense_context(messages, so)
       IN  /\ messages' = r.messages
           /\ summarized' = r.summarized
           /\ pc' = IF r.exc = NoExc THEN "list" ELSE "input"
           /\ last' = IF CondenseTriggers(messages)
                      THEN [NoOp EXCEPT !.op = "send_llm_request", !.exc = so.exc, !.ret = so.text]
                      ELSE last
    /\ UNCHANGED <<skills, nsess, tool_iterations, tools, tc_idx, turns, model_calls, session_calls, streamVars>>

\* tools = await self.list_tools()
ListTools(outs) ==
    /\ pc = "list"
    /\ \A i \in 1..Len(skills) :
          IF ~skills[i].loaded \/ skills[i].session # 0
          THEN outs[i] = ConnDefault
          ELSE outs[i] \in MainConnOutcomes
    /\ LET r == list_tools(skills, nsess, outs)
       IN  /\ skills' = r.skills
           /\ nsess' = r.nsess
           /\ last' = [NoOp EXCEPT !.op = "list_tools", !.exc = r.exc, !.ret = r.ret,
                                   !.connect = r.connect, !.failed = r.failed]
           /\ tools' = IF r.exc = NoExc THEN r.ret ELSE tools
           /\ pc' = IF r.exc = NoExc THEN "call" ELSE "input"
    /\ summarized' = <<>>
    /\ UNCHANGED <<messages, tool_iterations, tc_idx, turns, model_calls, session_calls, streamVars>>

\* A model call that appends the assistant message of what a broken stream
\* delivered: the variant C20_FailedCallKeepsTranscript has to tell from
\* ModelCall.
ModelCall_partial(deltas, failure) ==
    /\ pc = "call"
    /\ failure = "create" => deltas = <<>>
    /\ failure = "stream" => deltas \in BrokenStreams
    /\ failure = "none" => deltas \in ModelStreams
    /\ turns + session_calls < MaxEvents
    /\ model_calls' = model_calls + 1
    /\ session_calls' = session_calls + 1
    /\ stream' = deltas
    /\ UNCHANGED inflight
    /\ LET a == OnChunks(AccInit, deltas)
       IN  IF failure # "none" \/ a.exc # NoExc
           THEN /\ acc' = [a EXCEPT !.exc = IF a.exc # NoExc THEN a.exc
                                            ELSE IF failure = "create" THEN "OpenAIError"
                                            ELSE "TransportError"]
                /\ pc' = "input"
                /\ messages' = IF failure = "stream" THEN Append(messages, AssistantMsg(Seal(a)))
                               ELSE messages
                /\ UNCHANGED tc_idx
           ELSE /\ acc' = Seal(a)
                /\ messages' = Append(messages, AssistantMsg(Seal(a)))
                /\ tc_idx' = 1
                /\ pc' = IF TurnDone(Seal(a).tool_calls) THEN "input" ELSE "exec"
    /\ UNCHANGED <<regVars, tool_iterations, tools, turns, summarized>>

\* The streaming request, the reassembly of its stream and the assistant
\* message (agent.py:470-579).
ModelCall(deltas, failure) ==
    /\ pc = "call"
    /\ failure = "create" => deltas = <<>>
    /\ failure = "stream" => deltas \in BrokenStreams
    /\ failure = "none" => deltas \in ModelStreams
    /\ turns + session_calls < MaxEvents
    /\ model_calls' = model_calls + 1
    /\ session_calls' = session_calls + 1
    /\ stream' = deltas
    /\ UNCHANGED inflight
    /\ LET a == OnChunks(AccInit, deltas)
       IN  IF failure # "none" \/ a.exc # NoExc
           THEN /\ acc' = [a EXCEPT !.exc = IF a.exc # NoExc THEN a.exc
                                            ELSE IF failure = "create" THEN "OpenAIError"
                                            ELSE "TransportError"]
                /\ pc' = "input"
                /\ UNCHANGED <<messages, tc_idx>>
           ELSE /\ acc' = Seal(a)
                /\ messages' = Append(messages, AssistantMsg(Seal(a)))
                /\ tc_idx' = 1
                /\ pc' = IF TurnDone(Seal(a).tool_calls) THEN "input" ELSE "exec"
    /\ UNCHANGED <<regVars, tool_iterations, tools, turns, summarized>>

\* One pass of "for tc in tool_calls" (agent.py:582-602), and after the last
\* one "tool_iterations += 1".
Dispatch(conn, be) ==
    /\ pc = "exec"
    /\ LET tc == acc.tool_calls[tc_idx]
           fn_name == tc.function.name
           parsed == json_loads(tc.function.arguments)
           r == call_tool(skills, nsess, fn_name, parsed.val, conn, be)
           done == tc_idx = Len(acc.tool_calls)
       IN  /\ IF parsed.exc # NoExc \/ ~IsLoaderCall(fn_name)
              THEN conn = ConnDefault
              ELSE conn \in MainConnOutcomes
           /\ (parsed.exc # NoExc \/ IsLoaderCall(fn_name)) => be = BackendDefault
           /\ IF parsed.exc # NoExc
              THEN /\ last' = [NoOp EXCEPT !.op = "json.loads", !.name = fn_name, !.exc = parsed.exc]
                   /\ messages' = Append(messages, ToolMsg(tc, <<"Error: ", parsed.exc>>))
                   /\ UNCHANGED <<skills, nsess>>
              ELSE /\ last' = [NoOp EXCEPT !.op = "call_tool", !.name = fn_name,
                                           !.arguments = parsed.val, !.exc = r.exc, !.ret = r.ret,
                                           !.connect = r.connect, !.failed = r.failed,
                                   !.invoked = r.invoked]
                   /\ skills' = r.skills
                   /\ nsess' = r.nsess
                   /\ messages' = IF r.exc = NoExc THEN Append(messages, ToolMsg(tc, r.ret))
                                  ELSE IF Caught(r.exc, DispatchCaught)
                                  THEN Append(messages, ToolMsg(tc, <<"Error: ", r.exc>>))
                                  ELSE messages
           /\ IF parsed.exc = NoExc /\ r.exc # NoExc /\ ~Caught(r.exc, DispatchCaught)
              THEN /\ pc' = "input"
                   /\ UNCHANGED <<tc_idx, tool_iterations>>
              ELSE /\ tc_idx' = tc_idx + 1
                   /\ pc' = IF done THEN "top" ELSE "exec"
                   /\ tool_iterations' = IF done THEN tool_iterations + 1 ELSE tool_iterations
    /\ UNCHANGED streamVars
    /\ UNCHANGED <<tools, turns, model_calls, session_calls, summarized>>

Init ==
    InitAgent /\ pc = "setup"

Next ==
    \/ Main_add_server
    \/ Main_chat_loop
    \/ \E user_input \in UserInputs : ReadInput(user_input)
    \/ CapStop
    \/ \E so \in SummaryOutcomes : Condense(so)
    \/ \E outs \in [1..Len(skills) -> ConnOutcomes] : ListTools(outs)
    \/ \E deltas \in ModelStreams \cup BrokenStreams \cup {<<>>}, failure \in StreamFailures : ModelCall(deltas, failure)
    \/ \E conn \in ConnOutcomes, be \in MainBackendOutcomes \cup {BackendDefault} :
          Dispatch(conn, be)

Spec ==
    Init /\ [][Next]_vars

(***************************************************************************)
(* Command mode (main.py): main registers the servers, runs                *)
(* process_single_input for the one input it was given and then awaits    *)
(* agent.cleanup().  process_single_input is main.py's own copy of one     *)
(* turn of chat_loop; its control points carry the names of chat_loop's:   *)
(* "top", "list", "call" and "exec" inside the per-turn loop and "input"   *)
(* once the loop is left, where chat_loop is back at its prompt and        *)
(* process_single_input returns to main.  It has no handler around the     *)
(* loop: an exception leaves it and main ("raised").  After cleanup the    *)
(* exit stack that owns the sessions is closed ("closed").                 *)
(***************************************************************************)
\* A local cap one above the agent's: the variant C30_CommandModeIsOneTurn
\* has to tell from Main_MAX_TOOL_ITERATIONS.
Main_MAX_TOOL_ITERATIONS_more == MAX_TOOL_ITERATIONS + 1

\* process_single_input's local "MAX_TOOL_ITERATIONS = 1000  # same as in
\* agent": the value of the class attribute.
Main_MAX_TOOL_ITERATIONS == MAX_TOOL_ITERATIONS

\* The exception classes process_single_input's dispatch loop catches.
PSI_DispatchCaught == {"JSONDecodeError", "RuntimeError", "OpenAIError"}

\* process_single_input up to its loop: the system message if the transcript
\* is empty, then the user's message.
PSI_Start(user_input) ==
    /\ pc = "setup"
    /\ Len(skills) = Len(ServerDirs)
    /\ messages' = Append(IF messages = <<>> THEN <<SystemMsg(skills)>> ELSE messages,
                          UserMsg(user_input))
    /\ tool_iterations' = 0
    /\ turns' = turns + 1
    /\ model_calls' = 0
    /\ pc' = "top"
    /\ stream' = <<>>
    /\ UNCHANGED inflight
    /\ acc' = AccInit
    /\ summarized' = <<>>
    /\ UNCHANGED <<regVars, tools, tc_idx, session_calls>>

\* "if tool_iterations >= MAX_TOOL_ITERATIONS: ... break"
PSI_CapStop ==
    /\ pc = "top"
    /\ tool_iterations >= Main_MAX_TOOL_ITERATIONS
    /\ pc' = "input"
    /\ UNCHANGED <<regVars, messages, tool_iterations, tools, tc_idx, turns, model_calls, session_calls, summarized, streamVars>>

\* await agent._condense_context()
PSI_Condense(so) ==
    /\ pc = "top"
    /\ ~(tool_iterations >= Main_MAX_TOOL_ITERATIONS)
    /\ LET r == condense_context(messages, so)
       IN  /\ messages' = r.messages
           /\ summarized' = r.summarized
           /\ pc' = IF r.exc = NoExc THEN "list" ELSE "raised"
           /\ last' = IF CondenseTriggers(messages)
                      THEN [NoOp EXCEPT !.op = "send_llm_request", !.exc = so.exc, !.ret = so.text]
                      ELSE last
    /\ UNCHANGED <<skills, nsess, tool_iterations, tools, tc_idx, turns, model_calls, session_calls, streamVars>>

\* tools = await agent.list_tools()
PSI_ListTools(outs) ==
    /\ pc = "list"
    /\ \A i \in 1..Len(skills) :
          IF ~skills[i].loaded \/ skills[i].session # 0
          THEN outs[i] = ConnDefault
          ELSE outs[i] \in MainConnOutcomes
    /\ LET r == list_tools(skills, nsess, outs)
       IN  /\ skills' = r.skills
           /\ nsess' = r.nsess
           /\ last' = [NoOp EXCEPT !.op = "list_tools", !.exc = r.exc, !.ret = r.ret,
                                   !.connect = r.connect, !.failed = r.failed]
           /\ tools' = IF r.exc = NoExc THEN r.ret ELSE tools
           /\ pc' = IF r.exc = NoExc THEN "call" ELSE "raised"
    /\ summarized' = <<>>
    /\ UNCHANGED <<messages, tool_iterations, tc_idx, turns, model_calls, session_calls, streamVars>>

\* The streaming request, the reassembly of its stream and the assistant
\* message (main.py:121-229).
PSI_ModelCall(deltas, failure) ==
    /\ pc = "call"
    /\ failure = "create" => deltas = <<>>
    /\ failure = "stream" => deltas \in BrokenStreams
    /\ failure = "none" => deltas \in ModelStreams
    /\ turns + session_calls < MaxEvents
    /\ model_calls' = model_calls + 1
    /\ session_calls' = session_calls + 1
    /\ stream' = deltas
    /\ UNCHANGED inflight
    /\ LET a == OnChunks(AccInit, deltas)
       IN  IF failure # "none" \/ a.exc # NoExc
           THEN /\ acc' = [a EXCEPT !.exc = IF a.exc # NoExc THEN a.exc
                                            ELSE IF failure = "create" THEN "OpenAIError"
                                            ELSE "TransportError"]
                /\ pc' = "raised"
                /\ UNCHANGED <<messages, tc_idx>>
           ELSE /\ acc' = Seal(a)
                /\ messages' = Append(messages, AssistantMsg(Seal(a)))
                /\ tc_idx' = 1
                /\ pc' = IF Seal(a).tool_calls = <<>> THEN "input" ELSE "exec"
    /\ UNCHANGED <<regVars, tool_iterations, tools, turns, summarized>>

\* One pass of "for tc in tool_calls" (main.py:231-250), and after the last
\* one "tool_iterations += 1".
PSI_Dispatch(conn, be) ==
    /\ pc = "exec"
    /\ LET tc == acc.tool_calls[tc_idx]
           fn_name == tc.function.name
           parsed == json_loads(tc.function.arguments)
           r == call_tool(skills, nsess, fn_name, parsed.val, conn, be)
           done == tc_idx = Len(acc.tool_calls)
       IN  /\ IF parsed.exc # NoExc \/ ~IsLoaderCall(fn_name)
              THEN conn = ConnDefault
              ELSE conn \in MainConnOutcomes
           /\ (parsed.exc # NoExc \/ IsLoaderCall(fn_name)) => be = BackendDefault
           /\ IF parsed.exc # NoExc
              THEN /\ last' = [NoOp EXCEPT !.op = "json.loads", !.name = fn_name, !.exc = parsed.exc]
                   /\ messages' = Append(messages, ToolMsg(tc, <<"Error: ", parsed.exc>>))
                   /\ UNCHANGED <<skills, nsess>>
              ELSE /\ last' = [NoOp EXCEPT !.op = "call_tool", !.name = fn_name,
                                           !.arguments = parsed.val, !.exc = r.exc, !.ret = r.ret,
                                           !.connect = r.connect, !.failed = r.failed,
                                           !.invoked = r.invoked]
                   /\ skills' = r.skills
                   /\ nsess' = r.nsess
                   /\ messages' = IF r.exc = NoExc THEN Append(messages, ToolMsg(tc, r.ret))
                                  ELSE IF Caught(r.exc, PSI_DispatchCaught)
                                  THEN Append(messages, ToolMsg(tc, <<"Error: ", r.exc>>))
                                  ELSE messages
           /\ IF parsed.exc = NoExc /\ r.exc # NoExc /\ ~Caught(r.exc, PSI_DispatchCaught)
              THEN /\ pc' = "raised"
                   /\ UNCHANGED <<tc_idx, tool_iterations>>
              ELSE /\ tc_idx' = tc_idx + 1
                   /\ pc' = IF done THEN "top" ELSE "exec"
                   /\ tool_iterations' = IF done THEN tool_iterations + 1 ELSE tool_iterations
    /\ UNCHANGED streamVars
    /\ UNCHANGED <<tools, turns, model_calls, session_calls, summarized>>

\* main: "await agent.cleanup()" after process_single_input has returned.
Main_cleanup ==
    /\ pc = "input"
    /\ pc' = "closed"
    /\ UNCHANGED <<regVars, messages, tool_iterations, tools, tc_idx, turns, model_calls, session_calls, summarized, streamVars>>

InitCmd ==
    InitAgent /\ pc = "setup"

NextCmd ==
    \/ Main_add_server
    \/ \E user_input \in UserInputs : PSI_Start(user_input)
    \/ PSI_CapStop
    \/ \E so \in SummaryOutcomes : PSI_Condense(so)
    \/ \E outs \in [1..Len(skills) -> ConnOutcomes] : PSI_ListTools(outs)
    \/ \E deltas \in ModelStreams \cup BrokenStreams \cup {<<>>}, failure \in StreamFailures : PSI_ModelCall(deltas, failure)
    \/ \E conn \in ConnOutcomes, be \in MainBackendOutcomes \cup {BackendDefault} :
          PSI_Dispatch(conn, be)
    \/ Main_cleanup

SpecCmd ==
    InitCmd /\ [][NextCmd]_vars

(***************************************************************************)
(* chat_loop with its calls taken apart.  The program is one task          *)
(* (asyncio.run(main()); nothing is spawned), and chat_loop issues a call  *)
(* and goes on when the call is over: the summarization call inside        *)
(* _condense_context, the streaming request with the loop over its chunks, *)
(* and call_tool for each invocation.  Here issuing a call, its chunks,    *)
(* its end and the statements after it are steps of their own, and         *)
(* `inflight` holds the calls issued and not yet over.  The control points *)
(* added to chat_loop's are "summary" (awaiting send_llm_request),         *)
(* "condense" (the summary is there, the transcript not yet replaced),     *)
(* "stream" (in the loop over the chunks), "append" (after the loop),      *)
(* "dispatch" (awaiting call_tool) and "result" (the result is there, the  *)
(* tool message not yet appended).                                         *)
(***************************************************************************)
\* _condense_context up to the summarization call: it returns at once below
\* the trigger, else it builds the prompt and issues the call.
Flight_condense_check ==
    /\ pc = "top"
    /\ ~CapReached(tool_iterations)
    /\ IF CondenseTriggers(messages)
       THEN /\ summarized' = summary_prompt(ToSummarize(messages))
            /\ inflight' = inflight \cup {"summary"}
            /\ pc' = "summary"
       ELSE /\ pc' = "list"
            /\ UNCHANGED <<summarized, inflight>>
    /\ UNCHANGED <<regVars, messages, tool_iterations, tools, tc_idx, turns, model_calls, session_calls, stream, acc>>

\* A summarization call whose end is not waited for: the variant
\* C29_OneCallInFlight has to tell from Flight_summary_return.
Flight_summary_detached(so) ==
    /\ pc = "summary"
    /\ last' = [NoOp EXCEPT !.op = "send_llm_request", !.exc = so.exc, !.ret = so.text]
    /\ pc' = IF so.exc = NoExc THEN "condense"
             ELSE IF Caught(so.exc, CondenseCaught) THEN "list"
             ELSE "input"
    /\ UNCHANGED <<skills, nsess, messages, tool_iterations, tools, tc_idx, turns, model_calls, session_calls, summarized, streamVars>>

\* The summarization call is over: it returned the summary or raised; a
\* class _condense_context catches makes it return, any other reaches
\* chat_loop's handler.
Flight_summary_return(so) ==
    /\ pc = "summary"
    /\ inflight' = inflight \ {"summary"}
    /\ last' = [NoOp EXCEPT !.op = "send_llm_request", !.exc = so.exc, !.ret = so.text]
    /\ pc' = IF so.exc = NoExc THEN "condense"
             ELSE IF Caught(so.exc, CondenseCaught) THEN "list"
             ELSE "input"
    /\ UNCHANGED <<skills, nsess, messages, tool_iterations, tools, tc_idx, turns, model_calls, session_calls, summarized, stream, acc>>

\* self.messages = [system_prompt, summary_msg] + to_keep
Flight_condense_assign ==
    /\ pc = "condense"
    /\ messages' = Condensed(messages, last.ret)
    /\ pc' = "list"
    /\ UNCHANGED <<regVars, tool_iterations, tools, tc_idx, turns, model_calls, session_calls, summarized, streamVars>>

\* stream = self.client.chat.completions.create(...)
Flight_stream_issue ==
    /\ pc = "call"
    /\ turns + session_calls < MaxFlightEvents
    /\ model_calls' = model_calls + 1
    /\ session_calls' = session_calls + 1
    /\ stream' = <<>>
    /\ acc' = AccInit
    /\ inflight' = inflight \cup {"stream"}
    /\ pc' = "stream"
    /\ UNCHANGED <<regVars, messages, tool_iterations, tools, tc_idx, turns, summarized>>

\* One pass of "for chunk in stream"; an exception in it ends the call and
\* reaches chat_loop's handler.
Flight_stream_chunk(chunk) ==
    /\ pc = "stream"
    /\ \E deltas \in ModelStreams \cup BrokenStreams :
          /\ Len(stream) < Len(deltas)
          /\ SubSeq(deltas, 1, Len(stream) + 1) = Append(stream, chunk)
    /\ stream' = Append(stream, chunk)
    /\ acc' = OnChunk(acc, chunk)
    /\ IF OnChunk(acc, chunk).exc # NoExc
       THEN inflight' = inflight \ {"stream"} /\ pc' = "input"
       ELSE UNCHANGED <<inflight, pc>>
    /\ UNCHANGED <<regVars, messages, tool_iterations, tools, tc_idx, turns, model_calls, session_calls, summarized>>

\* The request or the transport fails: create() raised before any chunk, or
\* the stream broke after the chunks delivered.
Flight_stream_fail ==
    /\ pc = "stream"
    /\ stream = <<>> \/ stream \in BrokenStreams
    /\ acc' = [acc EXCEPT !.exc = IF stream = <<>> THEN "OpenAIError" ELSE "TransportError"]
    /\ inflight' = inflight \ {"stream"}
    /\ pc' = "input"
    /\ UNCHANGED <<regVars, messages, tool_iterations, tools, tc_idx, turns, model_calls, session_calls, summarized, stream>>

\* The stream ends: the loop over the chunks is left.
Flight_stream_end ==
    /\ pc = "stream"
    /\ stream \in ModelStreams
    /\ acc' = Seal(acc)
    /\ inflight' = inflight \ {"stream"}
    /\ pc' = "append"
    /\ UNCHANGED <<regVars, messages, tool_iterations, tools, tc_idx, turns, model_calls, session_calls, summarized, stream>>

\* self.messages.append(assistant_msg); "if not tool_calls: break"
Flight_append_assistant ==
    /\ pc = "append"
    /\ messages' = Append(messages, AssistantMsg(acc))
    /\ tc_idx' = 1
    /\ pc' = IF TurnDone(acc.tool_calls) THEN "input" ELSE "exec"
    /\ UNCHANGED <<regVars, tool_iterations, tools, turns, model_calls, session_calls, summarized, streamVars>>

\* fn_args = json.loads(fn_args_str) raises: no call is issued.
Flight_parse_error ==
    /\ pc = "exec"
    /\ json_loads(acc.tool_calls[tc_idx].function.arguments).exc # NoExc
    /\ last' = [NoOp EXCEPT !.op = "json.loads", !.name = acc.tool_calls[tc_idx].function.name,
                            !.exc = json_loads(acc.tool_calls[tc_idx].function.arguments).exc]
    /\ pc' = "result"
    /\ UNCHANGED <<skills, nsess, messages, tool_iterations, tools, tc_idx, turns, model_calls, session_calls, summarized, streamVars>>

\* result = await self.call_tool(fn_name, fn_args): the call is issued.
Flight_dispatch_issue ==
    /\ pc = "exec"
    /\ json_loads(acc.tool_calls[tc_idx].function.arguments).exc = NoExc
    /\ inflight' = inflight \cup {"dispatch"}
    /\ pc' = "dispatch"
    /\ UNCHANGED <<regVars, messages, tool_iterations, tools, tc_idx, turns, model_calls, session_calls, summarized, stream, acc>>

\* call_tool is over: it returned or raised; a class the dispatch loop does
\* not catch reaches chat_loop's handler.
Flight_dispatch_return(conn, be) ==
    /\ pc = "dispatch"
    /\ LET tc == acc.tool_calls[tc_idx]
           fn_name == tc.function.name
           parsed == json_loads(tc.function.arguments)
           r == call_tool(skills, nsess, fn_name, parsed.val, conn, be)
       IN  /\ IF ~IsLoaderCall(fn_name)
              THEN conn = ConnDefault
              ELSE conn \in MainConnOutcomes
           /\ IsLoaderCall(fn_name) => be = BackendDefault
           /\ last' = [NoOp EXCEPT !.op = "call_tool", !.name = fn_name,
                                   !.arguments = parsed.val, !.exc = r.exc, !.ret = r.ret,
                                   !.connect = r.connect, !.failed = r.failed,
                                   !.invoked = r.invoked]
           /\ skills' = r.skills
           /\ nsess' = r.nsess
           /\ pc' = IF r.exc # NoExc /\ ~Caught(r.exc, DispatchCaught) THEN "input" ELSE "result"
    /\ inflight' = inflight \ {"dispatch"}
    /\ UNCHANGED <<messages, tool_iterations, tools, tc_idx, turns, model_calls, session_calls, summarized, stream, acc>>

\* self.messages.append({"role": "tool", ...}), and after the last
\* invocation "tool_iterations += 1".
Flight_append_result ==
    /\ pc = "result"
    /\ LET tc == acc.tool_calls[tc_idx]
           done == tc_idx = Len(acc.tool_calls)
       IN  /\ messages' = Append(messages,
                  ToolMsg(tc, IF last.exc = NoExc THEN last.ret ELSE <<"Error: ", last.exc>>))
           /\ tc_idx' = tc_idx + 1
           /\ pc' = IF done THEN "top" ELSE "exec"
           /\ tool_iterations' = IF done THEN tool_iterations + 1 ELSE tool_iterations
    /\ UNCHANGED <<regVars, tools, turns, model_calls, session_calls, summarized, streamVars>>

InitFlight ==
    InitAgent /\ pc = "setup"

NextFlight ==
    \/ Main_add_server
    \/ Main_chat_loop
    \/ \E user_input \in UserInputs : ReadInput(user_input)
    \/ CapStop
    \/ Flight_condense_check
    \/ \E so \in SummaryOutcomes : Flight_summary_return(so)
    \/ Flight_condense_assign
    \/ \E outs \in [1..Len(skills) -> ConnOutcomes] : ListTools(outs)
    \/ Flight_stream_issue
    \/ \E chunk \in Deltas \cup {D_r, D_c, D_load, D_t, D_open, D_close} : Flight_stream_chunk(chunk)
    \/ Flight_stream_fail
    \/ Flight_stream_end
    \/ Flight_append_assistant
    \/ Flight_parse_error
    \/ Flight_dispatch_issue
    \/ \E conn \in ConnOutcomes, be \in MainBackendOutcomes \cup {BackendDefault} :
          Flight_dispatch_return(conn, be)
    \/ Flight_append_result

SpecFlight ==
    InitFlight /\ [][NextFlight]_vars

(***************************************************************************)
(* Claims about the registry.                                              *)
(***************************************************************************)
\* What C1 says a skill contributes to the list: its one loader entry while
\* unloaded, its tools_cache once loaded.
C1_Entries(w) ==
    IF w.loaded
    THEN w.tools_cache
    ELSE << [type |-> "function", name |-> <<"skill_">> \o w.config.name, parameters |-> "empty"] >>

RECURSIVE C1_Expected(_)
C1_Expected(sk) ==
    IF Len(sk) = 0 THEN <<>>
    ELSE C1_Entries(Head(sk)) \o C1_Expected(Tail(sk))

\* C1: the list list_tools returns is, skill by skill in registration
\* order, the one loader entry skill_<name> with empty parameters of an
\* unloaded skill or the tools_cache entries of a loaded one, never both.
C1_ListToolsShape ==
    (last.op = "list_tools" /\ last.exc = NoExc) => last.ret = C1_Expected(skills)

\* C1 witness: list_tools has returned for a registry holding a loaded,
\* connected skill with operations and an unloaded skill after it.
C1_Witness ==
    /\ last.op = "list_tools" /\ last.exc = NoExc
    /\ Len(skills) = 2
    /\ skills[1].loaded /\ skills[1].session # 0 /\ Len(skills[1].tools_cache) = 2
    /\ ~skills[2].loaded
    /\ Len(last.ret) = 3

\* C2: call_tool("skill_" + n, {}) on a registered skill named n, when it
\* returns, has loaded that skill, attempted its connection and returned its
\* full instructions, and has left every other skill as it was.
C2_LoaderCallLoadsNamedSkill ==
    [][ \A i \in 1..Len(skills) :
          ( /\ last'.op = "call_tool"
            /\ last'.name = <<"skill_">> \o skills[i].config.name
            /\ last'.exc = NoExc )
          => /\ Len(skills') = Len(skills)
             /\ skills'[i].loaded
             /\ last'.connect = <<i>>
             /\ last'.ret = skills[i].full_instructions
             /\ \A j \in 1..Len(skills) : j # i => skills'[j] = skills[j]
      ]_vars

\* C2 input: a skill whose name holds the loader prefix is registered and
\* its loader tool skill_skill_a has been called.
C2_Input ==
    /\ last.op = "call_tool" /\ last.name = <<"skill_", "skill_", "a">>
    /\ \E i \in 1..Len(skills) : skills[i].config.name = <<"skill_", "a">>

\* C3: a skill that is loaded stays registered and loaded through every step
\* of the program (list_tools, call_tool, failed connection attempts,
\* compaction, cap stop, aborted turns), and no list that list_tools returns
\* afterwards holds an entry named skill_<name> for it.
C3_LoadedForever ==
    [][ \A i \in 1..Len(skills) :
          skills[i].loaded =>
             /\ i <= Len(skills')
             /\ skills'[i].config = skills[i].config
             /\ skills'[i].loaded
             /\ (pc = "list" /\ last'.op = "list_tools" /\ last'.exc = NoExc) =>
                   \A j \in 1..Len(last'.ret) :
                       last'.ret[j].name # <<"skill_">> \o skills[i].config.name
      ]_vars

\* C3 witness: in the second turn list_tools has returned for a skill that
\* was loaded in the first turn and whose connection attempts failed.
C3_Witness ==
    /\ pc = "call" /\ turns = 2
    /\ last.op = "list_tools" /\ last.exc = NoExc /\ last.connect = <<1>>
    /\ skills[1].loaded /\ skills[1].session = 0

\* C14: call_tool("skill_<name>") on a skill that is already loaded and
\* connected returns its instructions and changes nothing: no skill's
\* loaded flag, session or tools_cache, no new session, no backend call.
C14_ReloadChangesNothing ==
    [][ \A i \in 1..Len(skills) :
          ( /\ skills[i].loaded /\ skills[i].session # 0
            /\ last'.op = "call_tool"
            /\ last'.name = <<"skill_">> \o skills[i].config.name )
          => /\ last'.exc = NoExc
             /\ last'.ret = skills[i].full_instructions
             /\ last'.invoked = <<>>
             /\ skills' = skills
             /\ nsess' = nsess
      ]_vars

\* C14 witness: the loader tool of the first skill has been called after
\* the second skill was connected, the first one having been loaded and
\* connected before that, with two operations in its cache.
C14_Witness ==
    /\ Len(skills) = 2
    /\ skills[1].loaded /\ skills[1].session = 1 /\ Len(skills[1].tools_cache) = 2
    /\ skills[2].loaded /\ skills[2].session = 2
    /\ last.op = "call_tool" /\ last.name = <<"skill_">> \o skills[1].config.name
    /\ last.ret = skills[1].full_instructions

\* C15: the skill names in the registry are pairwise distinct, and an
\* add_server call with a registered name leaves the registry as it is (the
\* first registration kept) and raises nothing.
C15_DistinctNames ==
    [][ /\ \A i, j \in 1..Len(skills') :
              skills'[i].config.name = skills'[j].config.name => i = j
        /\ ( /\ last'.op = "add_server"
              /\ \E i \in 1..Len(skills) : skills[i].config.name = last'.name )
           => (skills' = skills /\ last'.exc = NoExc)
      ]_vars

\* C15 witness: add_server was called for the name "a" with another
\* command while "a" was registered, loaded and connected.
C15_Witness ==
    /\ last.op = "add_server" /\ last.name = <<"a">> /\ last.arguments = "cmd2"
    /\ Len(skills) = 2
    /\ skills[2].config.name = <<"a">> /\ skills[2].config.command = "cmd1"
    /\ skills[2].loaded /\ skills[2].session # 0

\* The text segments of a result joined by newlines.
RECURSIVE C16_Text(_)
C16_Text(content) ==
    IF Len(content) = 0 THEN <<>>
    ELSE LET rest == C16_Text(Tail(content))
         IN  IF Head(content).type # "text" THEN rest
             ELSE IF \E k \in 1..Len(Tail(content)) : Tail(content)[k].type = "text"
                  THEN Head(content).text \o <<"\n">> \o rest
                  ELSE Head(content).text

\* Whether skill i is loaded, connected and lists the name in its tools_cache.
C16_Lists(i, name) ==
    /\ skills[i].loaded /\ skills[i].session # 0
    /\ \E k \in 1..Len(skills[i].tools_cache) : skills[i].tools_cache[k].name = name

\* C16: for a name that is no disclosure name and that some loaded,
\* connected skill lists, call_tool invokes the backend once, on the first
\* such skill in registration order, with the name and the arguments it was
\* given, and returns the text segments of the result joined by newlines.
C16_FirstOwnerInvoked ==
    \A i \in 1..Len(skills) :
        ( /\ last.op = "call_tool" /\ Head(last.name) # "skill_"
          /\ C16_Lists(i, last.name)
          /\ \A j \in 1..(i - 1) : ~C16_Lists(j, last.name) )
        => /\ Len(last.invoked) = 1
           /\ last.invoked[1].skill = i
           /\ last.invoked[1].name = last.name
           /\ last.invoked[1].arguments = last.arguments
           /\ last.invoked[1].response.exc = NoExc =>
                 /\ last.exc = NoExc
                 /\ last.ret = C16_Text(last.invoked[1].response.content)

\* C16 witness: both skills list the operation t, call_tool("t", {k:1}) has
\* invoked the first one and returned its two text segments.
C16_Witness ==
    /\ Len(skills) = 2 /\ C16_Lists(1, <<"t">>) /\ C16_Lists(2, <<"t">>)
    /\ last.op = "call_tool" /\ last.name = <<"t">> /\ last.arguments = "{k:1}"
    /\ Len(last.invoked) = 1 /\ last.invoked[1].skill = 1
    /\ last.ret = <<"x", "\n", "y">>

\* C18 (as stated, retry part): a skill whose connection attempt failed in
\* the previous call is attempted again by a list_tools call that returns.
C18_RetryAfterFailure ==
    [][ \A i \in 1..Len(skills) :
          ( /\ \E k \in 1..Len(last.failed) : last.failed[k] = i
            /\ last'.op = "list_tools" /\ last'.exc = NoExc )
          => \E k \in 1..Len(last'.connect) : last'.connect[k] = i
      ]_vars

\* C18 (what the code does): the same for an attempt that failed before a
\* session was assigned (starting the backend, initializing the session).
C18_RetryAfterStartFailure ==
    [][ \A i \in 1..Len(skills) :
          ( /\ \E k \in 1..Len(last.failed) : last.failed[k] = i
            /\ skills[i].session = 0
            /\ last'.op = "list_tools" /\ last'.exc = NoExc )
          => \E k \in 1..Len(last'.connect) : last'.connect[k] = i
      ]_vars

\* C18's failing input: the query of the operation list failed with a class
\* connect_server catches, the call returned, and the wrapper keeps a session
\* and an empty tools_cache.
C18_Input ==
    /\ last.exc = NoExc /\ last.failed = <<1>>
    /\ skills[1].loaded /\ skills[1].session # 0 /\ skills[1].tools_cache = <<>>

\* The lines of a document after the marker that closes its front matter.
RECURSIVE C22_AfterMarker(_)
C22_AfterMarker(lines) ==
    IF Len(lines) = 0 THEN <<>>
    ELSE IF Head(lines) = "---" THEN Tail(lines)
    ELSE C22_AfterMarker(Tail(lines))

\* What C22 says the disclosure of a skill returns.
C22_Expected(config) ==
    IF config.skill_md_path.kind # "file" THEN <<"Tools for ">> \o config.name
    ELSE IF Len(config.skill_md_path.content) > 0 /\ Head(config.skill_md_path.content) = "---"
    THEN C22_AfterMarker(Tail(config.skill_md_path.content))
    ELSE config.skill_md_path.content

\* C22 (as stated): a call of skill_<name> for a registered skill <name>
\* that returns, returns the skill's document without its front-matter
\* block, or "Tools for <name>" if the skill has no document.
C22_DisclosureReturnsBody ==
    \A i \in 1..Len(skills) :
        ( /\ last.op = "call_tool" /\ last.exc = NoExc
          /\ last.name = <<"skill_">> \o skills[i].config.name
          /\ last.connect = <<i>> )
        => last.ret = C22_Expected(skills[i].config)

\* C22 (what the code does for a skill without a document): the text is
\* "Tools for <name>".
C22_NoDocumentText ==
    \A i \in 1..Len(skills) :
        ( /\ last.op = "call_tool" /\ last.exc = NoExc
          /\ last.name = <<"skill_">> \o skills[i].config.name
          /\ last.connect = <<i>>
          /\ skills[i].config.skill_md_path.kind # "file" )
        => last.ret = <<"Tools for ">> \o skills[i].config.name

\* C22's failing input: skill_a was called for a skill whose document has a
\* front-matter block, and the call returned the document with the block.
C22_Input ==
    /\ last.op = "call_tool" /\ last.exc = NoExc
    /\ last.name = <<"skill_", "a">> /\ last.connect = <<1>>
    /\ skills[1].config.skill_md_path = SkillMd
    /\ last.ret = <<"---", "description: d", "---", "# Body">>

\* A disclosure of a skill without document was called and returned.
C22_NoDocumentWitness ==
    /\ last.op = "call_tool" /\ last.exc = NoExc
    /\ last.connect = <<1>>
    /\ skills[1].config.skill_md_path.kind = "missing"
    /\ last.ret = <<"Tools for ", "b">>

\* C23: after every step, for every skill, a non-empty tools_cache comes
\* with a session and a session with loaded = TRUE, and no two skills hold
\* the same session; over every step, a session once assigned stays the same
\* session, a newly assigned one is a new one, and the tools_cache changes
\* only in the step that assigns the session; every skill a connection was
\* attempted for or a backend was invoked of is loaded.
C23_SessionDiscipline ==
    [][ /\ \A k \in 1..Len(last'.connect) : skills'[last'.connect[k]].loaded
        /\ \A k \in 1..Len(last'.invoked) : skills'[last'.invoked[k].skill].loaded
        /\ \A i \in 1..Len(skills') :
              /\ skills'[i].tools_cache # <<>> => skills'[i].session # 0
              /\ skills'[i].session # 0 => skills'[i].loaded
              /\ \A j \in 1..Len(skills') :
                    (i # j /\ skills'[i].session # 0) => skills'[j].session # skills'[i].session
        /\ \A i \in 1..Len(skills) :
              /\ i <= Len(skills')
              /\ skills[i].session # 0 => skills'[i].session = skills[i].session
              /\ (skills[i].session = 0 /\ skills'[i].session # 0) => skills'[i].session > nsess
              /\ skills'[i].tools_cache # skills[i].tools_cache
                    => skills[i].session = 0 /\ skills'[i].session # 0 /\ skills[i].tools_cache = <<>>
      ]_vars

\* C23's case: two skills are loaded and connected, each with its own
\* session and a filled cache, and a further list_tools call has returned
\* without connecting anything.
C23_Witness ==
    /\ Len(skills) = 2
    /\ skills[1].session # 0 /\ skills[2].session # 0
    /\ skills[1].session # skills[2].session
    /\ skills[1].tools_cache # <<>> /\ skills[2].tools_cache # <<>>
    /\ last.op = "list_tools" /\ last.exc = NoExc /\ last.connect = <<>>

\* C27 (as stated): a call_tool call with a name that a loaded, connected
\* skill lists in its tools_cache (a name list_tools returns for it) invokes
\* the backend of a loaded skill that lists the name, with that name.
C27_ListedIsDispatchable ==
    [][ ( /\ last'.op = "call_tool"
          /\ \E i \in 1..Len(skills) :
                /\ skills[i].loaded /\ skills[i].session # 0
                /\ \E k \in 1..Len(skills[i].tools_cache) :
                      skills[i].tools_cache[k].name = last'.name )
        => /\ Len(last'.invoked) = 1
           /\ last'.invoked[1].name = last'.name
           /\ LET w == skills[last'.invoked[1].skill]
              IN  /\ w.loaded /\ w.session # 0
                  /\ \E k \in 1..Len(w.tools_cache) : w.tools_cache[k].name = last'.name
      ]_vars

\* C27 (what the code does): the same for the listed names that do not
\* begin with "skill_".
C27_ListedPlainNameIsDispatchable ==
    [][ ( /\ last'.op = "call_tool"
          /\ Head(last'.name) # "skill_"
          /\ \E i \in 1..Len(skills) :
                /\ skills[i].loaded /\ skills[i].session # 0
                /\ \E k \in 1..Len(skills[i].tools_cache) :
                      skills[i].tools_cache[k].name = last'.name )
        => /\ Len(last'.invoked) = 1
           /\ last'.invoked[1].name = last'.name
           /\ LET w == skills[last'.invoked[1].skill]
              IN  /\ w.loaded /\ w.session # 0
                  /\ \E k \in 1..Len(w.tools_cache) : w.tools_cache[k].name = last'.name
      ]_vars

\* C27's failing input: a connected skill lists the operation skill_t, and
\* call_tool('skill_t') looked for a skill named t and invoked no backend.
C27_Input ==
    /\ last.op = "call_tool" /\ last.name = <<"skill_", "t">>
    /\ \E i \in 1..Len(skills) :
          /\ skills[i].loaded /\ skills[i].session # 0
          /\ \E k \in 1..Len(skills[i].tools_cache) :
                skills[i].tools_cache[k].name = <<"skill_", "t">>
    /\ last.invoked = <<>>
    /\ last.ret = <<"Error: Skill '", "t", "' not found.">>

\* C4: call_tool never raises, and an unknown skill, an unknown operation, a
\* failed connection attempt during loading and a backend exception all give
\* a result that starts with an error marker.
C4_ErrorMarker(ret) ==
    Len(ret) > 0 /\ Head(ret) \in {"Error: Skill '", "Error: Tool '", "Error executing ", "Error: "}

C4_CallToolNeverRaises ==
    last.op = "call_tool" =>
        /\ last.exc = NoExc
        /\ (IsLoaderCall(last.name) /\ last.connect = <<>>) => C4_ErrorMarker(last.ret)
        /\ (~IsLoaderCall(last.name) /\ last.invoked = <<>>) => C4_ErrorMarker(last.ret)
        /\ (last.connect # <<>> /\ skills[last.connect[1]].session = 0) => C4_ErrorMarker(last.ret)

(***************************************************************************)
(* Claims about the turn loop.                                             *)
(***************************************************************************)
\* C5: at every model call, each invocation listed in an assistant message
\* of the transcript has a tool-result message with its id after it (no
\* dispatch failure aborts the turn before the result is appended).
C5_EveryInvocationAnswered ==
    pc = "call" =>
        \A k \in 1..Len(messages) :
            "tool_calls" \in DOMAIN messages[k] =>
                \A c \in 1..Len(messages[k].tool_calls) :
                    \E j \in (k + 1)..Len(messages) :
                        /\ messages[j].role = "tool"
                        /\ messages[j].tool_call_id = messages[k].tool_calls[c].id

\* C6: at every model call, each assistant message listing n invocations is
\* followed by exactly n tool-result messages, in the order of the
\* invocations and tagged with their ids (all dispatches of a response
\* complete before the next model call).
C6_RoundShape ==
    pc = "call" =>
        \A k \in 1..Len(messages) :
            "tool_calls" \in DOMAIN messages[k] =>
                LET n == Len(messages[k].tool_calls)
                IN  /\ k + n <= Len(messages)
                    /\ \A c \in 1..n :
                          /\ messages[k + c].role = "tool"
                          /\ messages[k + c].tool_call_id = messages[k].tool_calls[c].id
                    /\ k + n < Len(messages) => messages[k + n + 1].role # "tool"

\* The concatenation of the increments of one kind over a stream.
RECURSIVE Increments(_, _)
Increments(deltas, field) ==
    IF Len(deltas) = 0 THEN <<>>
    ELSE Head(deltas)[field] \o Increments(Tail(deltas), field)

\* C8: a response stream without tool fragments that completes ends the
\* per-turn loop: exactly one assistant message (content, reasoning_content
\* if any, no tool_calls) is appended, nothing is dispatched, the call is the
\* turn's last and the loop is back at the prompt.
C8_AnswerEndsTurn ==
    [][ ( /\ pc = "call"
          /\ acc'.sealed
          /\ \A k \in 1..Len(stream') : stream'[k].tool_calls = <<>> )
        => /\ messages' = Append(messages,
                  IF Increments(stream', "reasoning_content") # <<>>
                  THEN [role |-> "assistant", content |-> Increments(stream', "content"),
                        reasoning_content |-> Increments(stream', "reasoning_content")]
                  ELSE [role |-> "assistant", content |-> Increments(stream', "content")])
           /\ pc' = "input"
           /\ model_calls' = model_calls + 1
           /\ UNCHANGED <<skills, nsess, last, tool_iterations>>
      ]_vars

\* C8 witness: a stream of two reasoning and a content increment has completed
\* and the loop is back at the prompt.
C8_Witness ==
    /\ pc = "input" /\ acc.sealed
    /\ stream = <<D_r, D_r, D_c>>
    /\ messages[Len(messages)] = [role |-> "assistant", content |-> <<"c">>, reasoning_content |-> <<"r", "r">>]

\* C9: a turn issues at most MAX_TOOL_ITERATIONS streaming model calls; the
\* counter is zero at the start of a turn and goes up by one exactly when a
\* round of dispatches ends; at the cap the turn ends with the transcript
\* untouched, without a model call, back at the prompt.  With the bound on
\* the calls every turn ends once its streams end and its dispatches return.
C9_IterationCap ==
    [][ /\ model_calls' <= MAX_TOOL_ITERATIONS
        /\ tool_iterations' <= model_calls'
        /\ turns' # turns => (tool_iterations' = 0 /\ model_calls' = 0)
        /\ turns' = turns =>
              /\ tool_iterations' \in {tool_iterations, tool_iterations + 1}
              /\ (tool_iterations' = tool_iterations + 1) <=> (pc = "exec" /\ pc' = "top")
        /\ (pc = "top" /\ tool_iterations >= MAX_TOOL_ITERATIONS) =>
              /\ pc' = "input"
              /\ messages' = messages
              /\ model_calls' = model_calls
      ]_vars

\* C9 witness: the turn was stopped at the cap, after MAX_TOOL_ITERATIONS
\* rounds, the last of them holding two invocations.
C9_Witness ==
    /\ pc = "input"
    /\ tool_iterations = MAX_TOOL_ITERATIONS /\ model_calls = MAX_TOOL_ITERATIONS
    /\ Len(acc.tool_calls) = 2
    /\ messages[Len(messages)].role = "tool"

\* C10: when compaction triggers and the summarization succeeds, the
\* transcript becomes the old first message, one user message holding the
\* summary, and the last CONTEXT_KEEP_LAST_MESSAGES old messages in order; it
\* is KEEP_LAST + 2 long and shorter than before; the summarizer was handed
\* exactly the messages between the first one and the kept tail.
C10_CompactionShape ==
    [][ ( /\ pc = "top" /\ tool_iterations < MAX_TOOL_ITERATIONS
          /\ total_chars(messages) > CONTEXT_CHAR_LIMIT
          /\ Len(messages) > CONTEXT_KEEP_LAST_MESSAGES + 2
          /\ last'.op = "send_llm_request" /\ last'.exc = NoExc )
        => LET n == Len(messages)
               keep == CONTEXT_KEEP_LAST_MESSAGES
           IN  /\ Len(messages') = keep + 2
               /\ Len(messages') < n
               /\ messages'[1] = messages[1]
               /\ messages'[2].role = "user"
               /\ DOMAIN messages'[2] = {"role", "content"}
               /\ \E k \in 1..Len(messages'[2].content) :
                     SubSeq(messages'[2].content, k, k + Len(last'.ret) - 1) = last'.ret
               /\ \A k \in 1..keep : messages'[2 + k] = messages[n - keep + k]
               /\ summarized' = summary_prompt(SubSeq(messages, 2, n - keep))
      ]_vars

\* C10 witness: a compaction has succeeded on a transcript that ended with
\* the two tool results of a round.
C10_Witness ==
    /\ pc = "list"
    /\ last.op = "send_llm_request" /\ last.exc = NoExc
    /\ Len(messages) = CONTEXT_KEEP_LAST_MESSAGES + 2
    /\ messages[2].role = "user" /\ messages[3].role = "tool"

\* C11: when the character count is at most CONTEXT_CHAR_LIMIT or the
\* transcript has at most KEEP_LAST + 2 messages, _condense_context leaves
\* the transcript as it is and makes no summarization call.
C11_NoCompactionBelowTrigger ==
    [][ ( /\ pc = "top" /\ tool_iterations < MAX_TOOL_ITERATIONS
          /\ \/ total_chars(messages) <= CONTEXT_CHAR_LIMIT
             \/ Len(messages) <= CONTEXT_KEEP_LAST_MESSAGES + 2 )
        => /\ messages' = messages
           /\ summarized' = <<>>
           /\ last' = last
           /\ pc' = "list"
      ]_vars

\* C11 witness: _condense_context has returned without a summarization on
\* a transcript over the character limit that is KEEP_LAST + 2 long.
C11_Witness ==
    /\ pc = "list" /\ summarized = <<>>
    /\ total_chars(messages) > CONTEXT_CHAR_LIMIT
    /\ Len(messages) = CONTEXT_KEEP_LAST_MESSAGES + 2

\* A second case of C11: a transcript longer than KEEP_LAST + 2 within the
\* character limit.
C11_WitnessLong ==
    /\ pc = "list" /\ summarized = <<>>
    /\ total_chars(messages) <= CONTEXT_CHAR_LIMIT
    /\ Len(messages) > CONTEXT_KEEP_LAST_MESSAGES + 2

\* C12: when compaction triggers and the summarization call fails, with
\* whatever error, the transcript is left as it was, nothing is raised out
\* of _condense_context and the turn goes on (to list_tools and its model
\* call); the trigger is evaluated again at the top of the next iteration.
C12_FailedSummaryGoesOn ==
    [][ ( /\ pc = "top" /\ tool_iterations < MAX_TOOL_ITERATIONS
          /\ total_chars(messages) > CONTEXT_CHAR_LIMIT
          /\ Len(messages) > CONTEXT_KEEP_LAST_MESSAGES + 2
          /\ last'.op = "send_llm_request" /\ last'.exc # NoExc )
        => /\ messages' = messages
           /\ pc' = "list"
           /\ UNCHANGED <<skills, tool_iterations, model_calls, turns>>
      ]_vars

\* C12 for the errors _condense_context catches (OpenAIError, RuntimeError).
C12_CaughtSummaryFailureGoesOn ==
    [][ ( /\ pc = "top" /\ tool_iterations < MAX_TOOL_ITERATIONS
          /\ total_chars(messages) > CONTEXT_CHAR_LIMIT
          /\ Len(messages) > CONTEXT_KEEP_LAST_MESSAGES + 2
          /\ last'.op = "send_llm_request" /\ last'.exc \in {"OpenAIError", "RuntimeError"} )
        => /\ messages' = messages
           /\ pc' = "list"
           /\ UNCHANGED <<skills, tool_iterations, model_calls, turns>>
      ]_vars

\* C12 input: the summarization of a triggered compaction has failed with a
\* transport error that is no OpenAIError.
C12_Input ==
    /\ last.op = "send_llm_request" /\ last.exc = "TransportError"
    /\ summarized # <<>>

\* The system prompt chat_loop builds for the two registered skills.
C13_SystemContent ==
    <<"You are an efficient autonomous agent ... ## Available Skills\n",
      "- ", "a", ": ", "d", "\n", "- ", "b", ": ", "d", "\n">>

\* C13: from the start of the loop on, the first message of the transcript
\* is the system message with the content built at the start, and no step
\* (appends, successful or failed compaction, cap stop, aborted turn)
\* changes it.
C13_SystemMessageFirst ==
    pc # "setup" =>
        /\ Len(messages) >= 1
        /\ messages[1] = [role |-> "system", content |-> C13_SystemContent]

\* C13 witness: a model call is about to be made on a transcript that a
\* compaction has condensed.
C13_Witness ==
    /\ pc = "call"
    /\ Len(messages) = CONTEXT_KEEP_LAST_MESSAGES + 2
    /\ messages[2].role = "user"
    /\ Head(messages[2].content) = "## Previous Conversation Summary\n"

\* C17: an invocation with parsed arguments whose name is no disclosure
\* name and is listed by no loaded, connected skill gets the tool result
\* "Error: Tool '<name>' not found or skill not loaded."; no backend is
\* invoked, no skill changes, and the loop goes on to the next invocation
\* or, after the last one, to the top of the loop.
C17_NotFoundText ==
    [][ ( /\ pc = "exec"
          /\ Head(acc.tool_calls[tc_idx].function.name) # "skill_"
          /\ acc.tool_calls[tc_idx].function.arguments \in {<<"{", "}">>, <<"{", "k:1", "}">>}
          /\ \A i \in 1..Len(skills) :
                ~( /\ skills[i].loaded /\ skills[i].session # 0
                   /\ \E k \in 1..Len(skills[i].tools_cache) :
                         skills[i].tools_cache[k].name = acc.tool_calls[tc_idx].function.name ) )
        => /\ messages' = Append(messages,
                  [role |-> "tool", tool_call_id |-> acc.tool_calls[tc_idx].id,
                   content |-> <<"Error: Tool '">> \o acc.tool_calls[tc_idx].function.name
                               \o <<"' not found or skill not loaded.">>])
           /\ last'.invoked = <<>> /\ last'.exc = NoExc
           /\ skills' = skills /\ nsess' = nsess
           /\ tc_idx' = tc_idx + 1
           /\ pc' = IF tc_idx = Len(acc.tool_calls) THEN "top" ELSE "exec"
      ]_vars

\* C17 witness: the operation t of the still unloaded skill a was invoked
\* first in a response; its result is the not-found text and the next
\* invocation of the response is about to be dispatched.
C17_Witness ==
    /\ pc = "exec" /\ tc_idx = 2
    /\ ~skills[1].loaded
    /\ messages[Len(messages)] =
          [role |-> "tool", tool_call_id |-> "id2",
           content |-> <<"Error: Tool '", "t", "' not found or skill not loaded.">>]

\* C19: the assistant message appended for a completed stream has a
\* reasoning_content field exactly when the stream's reasoning increments
\* concatenate to something non-empty, and the field is that concatenation;
\* and every assistant message of the transcript a step leaves behind, other
\* than the one just appended, is a message of the transcript before the
\* step, field for field: at the same place when the transcript grew, at the
\* same distance from the end when a compaction shortened it.  The requests
\* are sent with the transcript itself.
C19_ReasoningKept ==
    [][ /\ (pc = "call" /\ acc'.sealed)
           => LET m == messages'[Len(messages')]
                  r == Increments(stream', "reasoning_content")
              IN  /\ Len(messages') = Len(messages) + 1
                  /\ m.role = "assistant"
                  /\ ("reasoning_content" \in DOMAIN m) <=> (r # <<>>)
                  /\ r # <<>> => m.reasoning_content = r
        /\ \A j \in 1..Len(messages') :
              ( /\ messages'[j].role = "assistant"
                /\ ~(pc = "call" /\ j = Len(messages) + 1) )
              => IF Len(messages') >= Len(messages)
                 THEN j <= Len(messages) /\ messages'[j] = messages[j]
                 ELSE /\ j + Len(messages) - Len(messages') \in 1..Len(messages)
                      /\ messages'[j] = messages[j + Len(messages) - Len(messages')]
      ]_vars

\* C19's case: a request is about to be sent with a transcript that was
\* compacted and keeps an assistant message whose reasoning came in two
\* increments.
C19_Witness ==
    /\ pc = "call"
    /\ Len(messages) >= 3
    /\ messages[2] = SummaryMsg(<<"s">>)
    /\ \E j \in 3..Len(messages) :
          /\ messages[j].role = "assistant"
          /\ "reasoning_content" \in DOMAIN messages[j]
          /\ messages[j].reasoning_content = <<"r", "r">>

\* C20: a streaming model call that fails, when it is issued (no delta is
\* delivered) or under the stream (the deltas of a broken stream are
\* delivered) or in the reassembly, reaches chat_loop's handler, which prints
\* it: the exception is on record, the transcript is the one before the call,
\* with no assistant message for the deltas delivered, no wrapper changes,
\* and chat_loop is at its prompt for the next turn.
C20_FailedCallKeepsTranscript ==
    [][ /\ ( /\ pc = "call" /\ model_calls' = model_calls + 1
             /\ (stream' = <<>> \/ stream' \in BrokenStreams) )
           => ~acc'.sealed
        /\ ( /\ pc = "call" /\ model_calls' = model_calls + 1
             /\ ~acc'.sealed )
           => /\ acc'.exc \in {"OpenAIError", "TransportError", "TypeError"}
              /\ messages' = messages
              /\ skills' = skills /\ nsess' = nsess
              /\ pc' = "input"
      ]_vars

\* C20's case: the second round's stream broke after a reasoning increment;
\* the transcript ends with the first round's assistant message and its tool
\* result, and the loop is at the prompt.
C20_Witness ==
    /\ pc = "input" /\ model_calls = 2
    /\ acc.exc = "TransportError" /\ stream = <<D_r>>
    /\ Len(messages) >= 4
    /\ messages[Len(messages)].role = "tool"
    /\ messages[Len(messages) - 1].role = "assistant"

\* C20's next turn: after a failed call the next user input was taken and
\* its turn has reached its own model call.
C20_WitnessNextTurn ==
    /\ pc = "call" /\ turns = 2 /\ model_calls = 0 /\ session_calls = 1
    /\ Len(messages) = 3
    /\ messages[2].role = "user" /\ messages[3].role = "user"

\* C21 (as stated): when main has ended, through exit or quit at the prompt
\* ("exited") or through an exception that left process_single_input
\* ("raised"), no established session is left unclosed: either none was
\* established or cleanup has closed the exit stack, which is pc = "closed"
\* and not one of these two.
C21_ClosedWhenMainEnds ==
    pc \in {"exited", "raised"} => nsess = 0

\* C21's failing input: interactive mode, a skill was loaded and connected,
\* and the user typed exit.
C21_Input ==
    /\ pc = "exited" /\ nsess > 0
    /\ \E i \in 1..Len(skills) : skills[i].session # 0

\* C21, the path the code does close: command mode, process_single_input
\* returned and cleanup was awaited with a session established.
C21_CommandModeClosed ==
    /\ pc = "closed" /\ nsess > 0

\* C24: the dispatch of an invocation whose argument text is not JSON (the
\* model's texts that are JSON are "{}" and "{k:1}"; the empty text is not)
\* does not call call_tool: no connection is attempted, no backend invoked,
\* no wrapper and no session count changes, the transcript gains one tool
\* result with the invocation's id whose content starts with "Error:", and
\* the loop goes on to the next invocation of the response, or to the top
\* of the loop after the last.
C24_ParseFailureIsToolError ==
    [][ ( /\ pc = "exec"
          /\ acc.tool_calls[tc_idx].function.arguments \notin {<<"{", "}">>, <<"{", "k:1", "}">>} )
        => /\ last'.op # "call_tool"
           /\ last'.connect = <<>> /\ last'.invoked = <<>>
           /\ skills' = skills /\ nsess' = nsess
           /\ Len(messages') = Len(messages) + 1
           /\ \A j \in 1..Len(messages) : messages'[j] = messages[j]
           /\ messages'[Len(messages')].role = "tool"
           /\ messages'[Len(messages')].tool_call_id = acc.tool_calls[tc_idx].id
           /\ Head(messages'[Len(messages')].content) = "Error: "
           /\ tc_idx' = tc_idx + 1
           /\ pc' = IF tc_idx = Len(acc.tool_calls) THEN "top" ELSE "exec"
      ]_vars

\* C24's case: the response called skill_a with empty argument text and then
\* t with "{}"; the first got the parse error and left skill a unloaded, the
\* second was dispatched and answered, and the round is over.
C24_Witness ==
    /\ pc = "top" /\ stream = <<D_load, D_t, D_close>>
    /\ ~skills[1].loaded /\ skills[1].session = 0
    /\ Len(messages) >= 3
    /\ messages[Len(messages) - 1] =
          [role |-> "tool", tool_call_id |-> "id1", content |-> <<"Error: ", "JSONDecodeError">>]
    /\ messages[Len(messages)].role = "tool"
    /\ messages[Len(messages)].tool_call_id = "id2"
    /\ last.op = "call_tool" /\ last.name = <<"t">>

\* C25 (as stated): every tool-result message of the transcript has, before
\* it, an assistant message whose tool_calls hold its tool_call_id; a
\* compaction does not take that message away from the results it keeps.
C25_ToolResultsKeepTheirCall ==
    \A k \in 1..Len(messages) :
        messages[k].role = "tool" =>
            \E j \in 1..(k - 1) :
                /\ messages[j].role = "assistant"
                /\ "tool_calls" \in DOMAIN messages[j]
                /\ \E c \in 1..Len(messages[j].tool_calls) :
                      messages[j].tool_calls[c].id = messages[k].tool_call_id

\* C25's failing input: a compaction has just succeeded and the first
\* message it kept is a tool result.
C25_Input ==
    /\ pc = "list" /\ summarized # <<>>
    /\ last.op = "send_llm_request" /\ last.exc = NoExc
    /\ Len(messages) = CONTEXT_KEEP_LAST_MESSAGES + 2
    /\ messages[3].role = "tool"

\* C28: every dispatch works on the registry as the dispatches before it
\* left it, not on the operation list sent with the request.  A disclosure
\* whose connection does not fail leaves its skill, in the same step, loaded,
\* connected and with the backend's operations in the cache; the dispatch of
\* an operation name (arguments that are JSON) invokes the backend of the
\* first skill that is loaded, connected and lists the name at that moment,
\* and gets the not-found text if there is none.
C28_DispatchSeesEarlierDispatches ==
    [][ /\ ( /\ pc = "exec"
             /\ last'.op = "call_tool" /\ last'.connect # <<>> /\ last'.failed = <<>> )
           => LET w == skills'[last'.connect[1]]
              IN  /\ w.loaded /\ w.session # 0
                  /\ skills[last'.connect[1]].session = 0
                        => w.tools_cache = [k \in 1..Len(ServerTools) |->
                                              [type |-> "function", name |-> ServerTools[k],
                                               parameters |-> "inputSchema"]]
        /\ ( /\ pc = "exec"
             /\ Head(acc.tool_calls[tc_idx].function.name) # "skill_"
             /\ acc.tool_calls[tc_idx].function.arguments \in {<<"{", "}">>, <<"{", "k:1", "}">>} )
           => LET name == acc.tool_calls[tc_idx].function.name
                  owners == { i \in 1..Len(skills) :
                                /\ skills[i].loaded /\ skills[i].session # 0
                                /\ \E k \in 1..Len(skills[i].tools_cache) :
                                      skills[i].tools_cache[k].name = name }
              IN  IF owners # {}
                  THEN /\ Len(last'.invoked) = 1
                       /\ last'.invoked[1].skill \in owners
                       /\ \A i \in owners : last'.invoked[1].skill <= i
                       /\ last'.invoked[1].name = name
                  ELSE /\ last'.invoked = <<>>
                       /\ messages'[Len(messages')].content =
                             <<"Error: Tool '">> \o name \o <<"' not found or skill not loaded.">>
      ]_vars

\* C28's case: the response called skill_a and then t; the list sent with the
\* request had no operation t, and t was routed to the backend of skill a.
C28_Witness ==
    /\ pc = "top" /\ stream = <<D_load, D_open, D_close, D_t, D_close>>
    /\ \A k \in 1..Len(tools) : tools[k].name # <<"t">>
    /\ last.op = "call_tool" /\ last.name = <<"t">>
    /\ Len(last.invoked) = 1 /\ last.invoked[1].skill = 1
    /\ messages[Len(messages)] = [role |-> "tool", tool_call_id |-> "id2", content |-> <<"x">>]

\* The other order: t came before skill_a in the response and got the
\* not-found text, and skill_a then loaded and connected the skill.
C28_WitnessBefore ==
    /\ pc = "top" /\ stream = <<D_r, D_t, D_close, D_load, D_open, D_close>>
    /\ skills[1].loaded /\ skills[1].session # 0 /\ skills[1].tools_cache # <<>>
    /\ Len(messages) >= 2
    /\ messages[Len(messages) - 1] =
          [role |-> "tool", tool_call_id |-> "id2",
           content |-> <<"Error: Tool '", "t", "' not found or skill not loaded.">>]
    /\ messages[Len(messages)].tool_call_id = "id1"

\* C29: at most one call (summarization, streaming request, tool dispatch)
\* is in flight after every step, and a step that starts or ends with a call
\* in flight leaves the transcript as it is: the transcript is replaced by
\* the compaction and appended to only in steps between the end of one call
\* and the issue of the next.
C29_OneCallInFlight ==
    [][ /\ Cardinality(inflight') <= 1
        /\ (inflight # {} \/ inflight' # {}) => messages' = messages
      ]_vars

\* C29's case: the summarization call is in flight over a transcript that
\* is due for compaction.
C29_Witness ==
    /\ pc = "summary" /\ inflight = {"summary"}
    /\ Len(messages) > CONTEXT_KEEP_LAST_MESSAGES + 2

\* The streaming request of a second round is in flight with chunks
\* delivered, after a compaction replaced the transcript.
C29_WitnessStream ==
    /\ pc = "stream" /\ inflight = {"stream"} /\ Len(stream) >= 1
    /\ model_calls = 2
    /\ Len(messages) >= 2 /\ messages[2] = SummaryMsg(<<"s">>)

\* C30: process_single_input starts its loop with the transcript chat_loop
\* starts its first turn with (the system message, then the user's message)
\* and a counter of zero, and every step of its loop that does not raise out
\* of it is, from the same state and with the same summarization outcome,
\* connection outcomes, stream and backend response, a step of a turn of
\* chat_loop with the same effect on the transcript, the registry, the
\* counters and the position in the loop: the cap stop, the compaction
\* check, the tool list, the model request with its assistant message, the
\* dispatch with its tool message.
C30_CommandModeIsOneTurn ==
    [][ /\ (pc = "setup" /\ pc' = "top")
           => /\ \E user_input \in UserInputs :
                    messages' = <<SystemMsg(skills), UserMsg(user_input)>>
              /\ tool_iterations' = 0
        /\ (pc \in {"top", "list", "call", "exec"} /\ pc' # "raised")
           => \/ CapStop
              \/ \E so \in SummaryOutcomes : Condense(so)
              \/ \E outs \in [1..Len(skills) -> ConnOutcomes] : ListTools(outs)
              \/ \E deltas \in ModelStreams, failure \in {"none"} : ModelCall(deltas, failure)
              \/ \E conn \in ConnOutcomes, be \in MainBackendOutcomes \cup {BackendDefault} :
                    Dispatch(conn, be)
      ]_vars

\* C30, the other way round: every step of a turn of chat_loop that does
\* not end in chat_loop's handler is a step of process_single_input's loop.
C30_TurnIsCommandMode ==
    [][ ( /\ pc \in {"top", "list", "call", "exec"}
          /\ ~( /\ pc' = "input"
                /\ \/ pc \in {"list", "exec"}
                   \/ pc = "top" /\ tool_iterations < MAX_TOOL_ITERATIONS
                   \/ pc = "call" /\ ~acc'.sealed ) )
        => \/ PSI_CapStop
           \/ \E so \in SummaryOutcomes : PSI_Condense(so)
           \/ \E outs \in [1..Len(skills) -> ConnOutcomes] : PSI_ListTools(outs)
           \/ \E deltas \in ModelStreams, failure \in {"none"} : PSI_ModelCall(deltas, failure)
           \/ \E conn \in ConnOutcomes, be \in MainBackendOutcomes \cup {BackendDefault} :
                 PSI_Dispatch(conn, be)
      ]_vars

\* C30's case: process_single_input has returned after a round of two
\* dispatches, a compaction and a second model request that answered.
C30_Witness ==
    /\ pc = "input" /\ model_calls = 2 /\ tool_iterations = 1
    /\ acc.sealed /\ acc.tool_calls = <<>>
    /\ messages[2] = SummaryMsg(<<"s">>)
    /\ messages[Len(messages)].role = "assistant"

(***************************************************************************)
(* Claims about the reassembly.                                            *)
(***************************************************************************)
\* The fragments of a stream, in arrival order.
RECURSIVE C7_Fragments(_)
C7_Fragments(deltas) ==
    IF Len(deltas) = 0 THEN <<>>
    ELSE Head(deltas).tool_calls \o C7_Fragments(Tail(deltas))

\* The argument pieces of the fragments up to the next identity-bearing one.
RECURSIVE C7_Pieces(_)
C7_Pieces(frags) ==
    IF Len(frags) = 0 \/ Head(frags).id # "" THEN <<>>
    ELSE Head(frags).arguments \o C7_Pieces(Tail(frags))

\* One invocation per identity-bearing fragment.
RECURSIVE C7_Invocations(_)
C7_Invocations(frags) ==
    IF Len(frags) = 0 THEN <<>>
    ELSE IF Head(frags).id # ""
    THEN << [id |-> Head(frags).id, type |-> "function",
             function |-> [name |-> Head(frags).name,
                           arguments |-> Head(frags).arguments \o C7_Pieces(Tail(frags))]] >>
         \o C7_Invocations(Tail(frags))
    ELSE C7_Invocations(Tail(frags))

\* C7: for every sequence of deltas the reassembly runs to the end of the
\* stream and yields one invocation per identity-bearing fragment, in
\* arrival order, with that fragment's id and name and the argument pieces
\* from it up to the next identity-bearing fragment, the one in flight at
\* the end sealed; content and reasoning are the concatenations of their
\* own increments.
C7_Reassembly ==
    /\ acc.exc = NoExc
    /\ acc.sealed =>
          /\ acc.tool_calls = C7_Invocations(C7_Fragments(stream))
          /\ acc.full_content = Increments(stream, "content")
          /\ acc.reasoning_storage = Increments(stream, "reasoning_content")

\* C7 without its first conjunct: what holds of the streams whose
\* reassembly ends.
C7_ReassemblyWhenItEnds ==
    acc.sealed =>
        /\ acc.tool_calls = C7_Invocations(C7_Fragments(stream))
        /\ acc.full_content = Increments(stream, "content")
        /\ acc.reasoning_storage = Increments(stream, "reasoning_content")

\* C26 (as stated): the reassembly raises for no sequence of deltas.
C26_ReassemblyNeverRaises ==
    acc.exc = NoExc

\* C26 (as stated, in the turn loop): a model call whose stream is delivered
\* to its end is not aborted: the reassembly ends and the assistant message
\* is appended.
C26_TurnNotAborted ==
    [][ (pc = "call" /\ model_calls' = model_calls + 1 /\ stream' \in ModelStreams)
        => /\ acc'.exc = NoExc /\ acc'.sealed
           /\ Len(messages') = Len(messages) + 1
      ]_vars

\* C26's failing input: the first delta of the stream carries a fragment
\* with argument text and no id while no invocation is in flight.
C26_Input ==
    /\ stream = << Delta(<<>>, <<>>, << Fragment("", <<>>, <<"{">>) >>) >>
    /\ acc.current_tool_call = <<>> /\ acc.tool_calls = <<>>
    /\ acc.exc = "TypeError"

====
